---- MODULE Spec2Model ----
(***************************************************************************)
(* The tabular reconciliation core of the creator operations console:     *)
(*   - the QC edit/save cycle of content_qc.render (export a snapshot,    *)
(*     edit it in the data editor, import the diff into                   *)
(*     public.content_submissions through                                 *)
(*     db.bulk_update_content_submissions);                               *)
(*   - the leaderboard CSV import of leaderboard.render.                  *)
(*                                                                         *)
(* Text values are sequences of one-character strings, so that strip()    *)
(* and lower() are computed and not assumed.  Python's None / SQL NULL /  *)
(* pandas NaN is the value None below, which is no text.                  *)
(***************************************************************************)
EXTENDS Integers, Sequences, FiniteSets, TLC

\* ------------------------------------------------------------------ bounds
\* writes of other sessions (other operators, jobs) to the store
MaxExternal == 1
\* cell edits the operator makes in the data editor
MaxEdits == 2
\* required columns an uploaded CSV of the selected mode may lack
MaxMissing == 1
\* clicks on "Import to DB"
MaxImports == 2
\* store operations called one after the other
MaxCalls == 5
\* presses of "Save" on the Content Submission form, all sessions together
MaxSaves == 3

\* ------------------------------------------------------------ text helpers
None == <<"None">>

isna(v) == v = None

RECURSIVE lstrip(_)
lstrip(s) == IF s # <<>> /\ Head(s) = " " THEN lstrip(Tail(s)) ELSE s

RECURSIVE rstrip(_)
rstrip(s) == IF s # <<>> /\ s[Len(s)] = " " THEN rstrip(SubSeq(s, 1, Len(s) - 1)) ELSE s

\* str.strip()
strip(s) == rstrip(lstrip(s))

UpperToLower ==
    [c \in {"A", "B", "C", "D", "E", "F", "G", "H", "I", "J", "K", "L", "M",
            "N", "O", "P", "Q", "R", "S", "T", "U", "V", "W", "X", "Y", "Z"} |->
        CASE c = "A" -> "a" [] c = "B" -> "b" [] c = "C" -> "c" [] c = "D" -> "d"
          [] c = "E" -> "e" [] c = "F" -> "f" [] c = "G" -> "g" [] c = "H" -> "h"
          [] c = "I" -> "i" [] c = "J" -> "j" [] c = "K" -> "k" [] c = "L" -> "l"
          [] c = "M" -> "m" [] c = "N" -> "n" [] c = "O" -> "o" [] c = "P" -> "p"
          [] c = "Q" -> "q" [] c = "R" -> "r" [] c = "S" -> "s" [] c = "T" -> "t"
          [] c = "U" -> "u" [] c = "V" -> "v" [] c = "W" -> "w" [] c = "X" -> "x"
          [] c = "Y" -> "y" [] c = "Z" -> "z"]

\* str.lower()
lower(s) == [i \in 1..Len(s) |-> IF s[i] \in DOMAIN UpperToLower THEN UpperToLower[s[i]] ELSE s[i]]

\* Series.str.contains(sub, case=False) on one cell (plain text pattern)
contains(s, sub) ==
    \E i \in 1..(Len(s) - Len(sub) + 1) : SubSeq(lower(s), i, i + Len(sub) - 1) = lower(sub)

\* the elements of a finite set of integers as a sequence, largest first
RECURSIVE SeqDesc(_)
SeqDesc(S) ==
    IF S = {} THEN <<>>
    ELSE LET m == CHOOSE x \in S : \A y \in S : y <= x
         IN <<m>> \o SeqDesc(S \ {m})

\* ------------------------------------------------------------- the store
\* public.status_map: the status rows that may exist.  Status 1 is the
\* initial status, hidden from the editor's dropdown.  Labels are free text
\* of the table: "A" and "A " are two statuses with ids of their own.
StatusIds == {1, 2, 3}

status_name(id) ==
    CASE id = 1 -> <<"P">>
      [] id = 2 -> <<"A">>
      [] OTHER  -> <<"A", " ">>

\* the status an administrator may remove while the operator works
RemovableStatusIds == {2}

\* the ids of the rows of public.content_submissions at the start
Ids == {1, 2}

\* columns of content_submissions the QC page never writes
posting_date(id) == ((id - 1) % 2) + 1

tiktok_id(id) == IF id % 2 = 1 THEN <<"@", "a">> ELSE <<"@", "b">>

\* reason values rows hold at the start, values another session may write,
\* and texts the operator may type into the reason cell (None: cell cleared)
InitRow(id) ==
    IF id % 2 = 1 THEN [status_id |-> 1, reason |-> None]
    ELSE [status_id |-> 2, reason |-> <<"a">>]

ExternalReason == <<"x", " ">>

ExternalStatus == 3

EditReasons == {None, <<"a", " ">>}

\* what the operator may enter in the filter form: start date, end date and
\* TikTok ID filter
ExportInputs ==
    {<<1, 2, <<>>>>, <<1, 1, <<>>>>, <<2, 2, <<>>>>, <<2, 1, <<>>>>, <<1, 2, <<" ", "B">>>>}

VARIABLES
    content_submissions,  \* id -> [status_id, reason] for the rows that exist
    status_map,           \* ids of the rows of public.status_map
    qc_batch,             \* st.session_state.qc_batch (<<>>: None)
    qc_batch_original,    \* st.session_state.qc_batch_original (<<>>: None)
    qc_editor,            \* st.session_state[QC_EDITOR_KEY]: the editor's cell edits
    qc_success_msg,       \* the count in the persisted success message (0: None)
    qc_success_count,     \* st.session_state.qc_success_count (0: None)
    last,                 \* the handler that ran last and what it computed
    n_ext,                \* writes of other sessions so far
    n_edits               \* cell edits so far

qc_vars == <<content_submissions, status_map, qc_batch, qc_batch_original, qc_editor,
             qc_success_msg, qc_success_count, last, n_ext, n_edits>>

VARIABLES
    import_mode,          \* st.session_state.import_mode
    uploaded,             \* the table read from the uploaded CSV (<<>>: no file)
    leaderboard,          \* mode -> its table of schema leaderboard
    page,                 \* what the last run of leaderboard.render showed
    lb_last,              \* the button or upload handled last and its result
    n_imports             \* clicks on "Import to DB" so far

lb_vars == <<import_mode, uploaded, page, leaderboard, lb_last, n_imports>>

\* one call of a cell function of leaderboard.py or leaderboard_page.py
VARIABLES
    amount,               \* the whole number the cell is written from
    cell,                 \* the argument of the call: a cell of the table
    returned,             \* what the call returned
    call                  \* the function called last, and the style of its input

cell_vars == <<amount, cell, returned, call>>

\* the Creator List page and the tables it reads and writes
VARIABLES
    creator_registry,     \* id -> the row of public.creator_registry
    agency_map,           \* id -> agency_name of public.agency_map
    edit_form,            \* the widgets of edit_creator_form (<<>>: not opened)
    cr_last               \* what the last press of "Apply Changes" did

cr_vars == <<creator_registry, agency_map, edit_form, cr_last>>

\* the connections the store operations of db.py, content_submission.py and
\* leaderboard.py open
VARIABLES
    open_connections,     \* connections opened by get_connection and not closed
    conn_last,            \* the operation called last, where it raised, its events
    n_calls               \* operations called so far

conn_vars == <<open_connections, conn_last, n_calls>>

\* the Content Submission form, used by two sessions
VARIABLES
    form_submissions,     \* link_post of the rows inserted through the form, in order
    sessions,             \* session -> where its run of the "Save" handler stands
    sub_last,             \* the step taken last and its outcome
    n_saves               \* presses of "Save" so far

sub_vars == <<form_submissions, sessions, sub_last, n_saves>>

vars == <<qc_vars, lb_vars, cell_vars, cr_vars, conn_vars, sub_vars>>

NoImport == [op |-> "none", result |-> "none", changes |-> <<>>,
             status_changed |-> {}, reason_changed |-> {}, skipped |-> {}, fail_at |-> 0]

Did(op, result) == [NoImport EXCEPT !.op = op, !.result = result]

\* ------------------------------------------- content_submission.py queries
\* fetch_content_submissions: the joined rows, newest (largest id) first;
\* status_name is NULL when the LEFT JOIN finds no status_map row
joined_row(id) ==
    [id |-> id,
     posting_date |-> posting_date(id),
     tiktok_id |-> tiktok_id(id),
     status_name |-> IF content_submissions[id].status_id \in status_map
                     THEN status_name(content_submissions[id].status_id)
                     ELSE None,
     reason |-> content_submissions[id].reason]

fetch_content_submissions ==
    LET order == SeqDesc(DOMAIN content_submissions)
    IN [i \in 1..Len(order) |-> joined_row(order[i])]

\* fetch_status_map and what render derives from it
status_options == {status_name(i) : i \in status_map \ {1}}

\* dict(zip(status_df["status_name"], status_df["id"])), rows ordered by id
status_name_to_id ==
    [n \in {status_name(i) : i \in status_map} |->
        CHOOSE i \in status_map :
            /\ status_name(i) = n
            /\ \A j \in status_map : status_name(j) = n => j <= i]

\* ------------------------------------------------------ content_qc.render
\* render returns before the filter form when there is nothing to show
page_renders == DOMAIN content_submissions # {}

min_posting_date ==
    CHOOSE d \in {posting_date(i) : i \in DOMAIN content_submissions} :
        \A i \in DOMAIN content_submissions : d <= posting_date(i)

max_posting_date ==
    CHOOSE d \in {posting_date(i) : i \in DOMAIN content_submissions} :
        \A i \in DOMAIN content_submissions : posting_date(i) <= d

\* the export mask
in_filter(row, start_date, end_date, tiktok_filter) ==
    /\ row.posting_date >= start_date
    /\ row.posting_date <= end_date
    /\ (strip(tiktok_filter) # <<>> => contains(row.tiktok_id, strip(tiktok_filter)))

snapshot_row(row) == [id |-> row.id, status_name |-> row.status_name, reason |-> row.reason]

\* original_df: the filtered rows with real NULLs
original_df(start_date, end_date, tiktok_filter) ==
    LET rows == fetch_content_submissions
        keep == {i \in 1..Len(rows) : in_filter(rows[i], start_date, end_date, tiktok_filter)}
        pick == SeqDesc({rows[i].id : i \in keep})
    IN [k \in 1..Len(pick) |-> snapshot_row(joined_row(pick[k]))]

\* editable_df: the same rows, a NULL reason shown as ""
editable_df(original) ==
    [k \in 1..Len(original) |->
        [original[k] EXCEPT !.reason = IF isna(original[k].reason) THEN <<>> ELSE original[k].reason]]

\* st.data_editor: the snapshot with the editor's cell edits applied
edited_df ==
    [k \in 1..Len(qc_batch) |->
        LET r == qc_batch[k]
        IN [id |-> r.id,
            status_name |-> IF <<r.id, "status_name">> \in DOMAIN qc_editor
                            THEN qc_editor[<<r.id, "status_name">>] ELSE r.status_name,
            reason |-> IF <<r.id, "reason">> \in DOMAIN qc_editor
                       THEN qc_editor[<<r.id, "reason">>] ELSE r.reason]]

row_ids(df) == {df[k].id : k \in 1..Len(df)}

\* df.set_index("id").loc[row_id]
loc(df, row_id) == df[CHOOSE k \in 1..Len(df) : df[k].id = row_id]

\* the cleaning without the pd.isna branch: str(raw).strip() alone
reason_clean_str(raw) == strip(raw)

\* "" if pd.isna(raw) else str(raw).strip()
reason_clean(raw) == IF isna(raw) THEN <<>> ELSE strip(raw)

status_changed(base_row, cur_row) == base_row.status_name # cur_row.status_name

\* the comparison of the raw cells, none of them cleaned
reason_changed_raw(base_row, cur_row) == base_row.reason # cur_row.reason

reason_changed(base_row, cur_row) == reason_clean(base_row.reason) # reason_clean(cur_row.reason)

\* the row is skipped: its new status has no id in the lookup
lookup_miss(base_row, cur_row, name_to_id) ==
    /\ status_changed(base_row, cur_row)
    /\ cur_row.status_name \notin DOMAIN name_to_id

\* a payload that names the status id for every changed row
payload_with_status(base_row, cur_row, name_to_id) ==
    [id |-> cur_row.id,
     status_id |-> IF cur_row.status_name \in DOMAIN name_to_id
                   THEN name_to_id[cur_row.status_name] ELSE 0,
     reason |-> IF strip(cur_row.reason) # <<>> /\ cur_row.reason # None
                THEN strip(cur_row.reason) ELSE None]

\* the payload dict of one changed row
payload(base_row, cur_row, name_to_id) ==
    LET cur_reason_clean == reason_clean(cur_row.reason)
        reason == IF cur_reason_clean # <<>> THEN cur_reason_clean ELSE None
    IN IF status_changed(base_row, cur_row)
       THEN [id |-> cur_row.id,
             status_id |-> name_to_id[cur_row.status_name],
             reason |-> reason]
       ELSE [id |-> cur_row.id, reason |-> reason]

\* the loop over cur_by_id.index that builds `changes`
RECURSIVE diff_changes(_, _, _, _)
diff_changes(base, cur, name_to_id, k) ==
    IF k > Len(cur) THEN <<>>
    ELSE LET cur_row == cur[k]
             base_row == loc(base, cur_row.id)
             rest == diff_changes(base, cur, name_to_id, k + 1)
         IN IF ~status_changed(base_row, cur_row) /\ ~reason_changed(base_row, cur_row)
            THEN rest
            ELSE IF lookup_miss(base_row, cur_row, name_to_id)
            THEN rest
            ELSE <<payload(base_row, cur_row, name_to_id)>> \o rest

\* a baseline that is the edited frame as it is, blank reasons kept
new_base_as_edited(cur) == cur

\* a baseline made of the rows that have a reason only
new_base_dropna(cur) ==
    LET kept == SelectSeq(cur, LAMBDA row : ~(isna(row.reason) \/ strip(row.reason) = <<>>))
    IN [k \in 1..Len(kept) |-> [kept[k] EXCEPT !.reason = strip(kept[k].reason)]]

\* new_base: the edited frame, a blank reason turned back into NULL
new_base(cur) ==
    [k \in 1..Len(cur) |->
        [cur[k] EXCEPT !.reason = IF isna(cur[k].reason) \/ strip(cur[k].reason) = <<>>
                                  THEN None ELSE strip(cur[k].reason)]]

\* ------------------------------------- db.bulk_update_content_submissions
\* cur.execute of the UPDATE with one dict: psycopg2 raises when the dict
\* lacks a named parameter; an id that matches no row updates nothing
execute_raises(update) == ~({"id", "status_id", "reason"} \subseteq DOMAIN update)

\* the UPDATE without its WHERE clause
execute_update_all_rows(table, update) ==
    [i \in DOMAIN table |-> [status_id |-> update.status_id, reason |-> update.reason]]

\* an UPDATE that adds to the stored status id instead of replacing it
execute_update_relative(table, update) ==
    IF update.id \in DOMAIN table
    THEN [table EXCEPT ![update.id] = [status_id |-> @.status_id + update.status_id,
                                       reason |-> update.reason]]
    ELSE table

execute_update(table, update) ==
    IF update.id \in DOMAIN table
    THEN [table EXCEPT ![update.id] = [status_id |-> update.status_id, reason |-> update.reason]]
    ELSE table

\* the loop inside `with conn:`; fail_at = k: the store rejects statement k
RECURSIVE run_updates(_, _, _, _)
run_updates(table, updates, k, fail_at) ==
    IF k > Len(updates) THEN [raised |-> FALSE, table |-> table]
    ELSE IF fail_at = k \/ execute_raises(updates[k]) THEN [raised |-> TRUE, table |-> table]
    ELSE run_updates(execute_update(table, updates[k]), updates, k + 1, fail_at)

\* a connection in autocommit mode: every UPDATE executed before the one
\* that raised stays in the store
bulk_update_autocommit(table, updates, fail_at) ==
    IF updates = <<>> THEN [raised |-> FALSE, table |-> table]
    ELSE run_updates(table, updates, 1, fail_at)

\* `with conn:` commits when the block ends and rolls back when it raises
bulk_update_content_submissions(table, updates, fail_at) ==
    IF updates = <<>> THEN [raised |-> FALSE, table |-> table]
    ELSE LET r == run_updates(table, updates, 1, fail_at)
         IN IF r.raised THEN [raised |-> TRUE, table |-> table]
            ELSE [raised |-> FALSE, table |-> r.table]

\* ---------------------------------------------------------- leaderboard.py
Modes == {"Main Leaderboard", "All Industry Bonus", "Dining Bonus"}

\* IMPORT_MODES[mode]["required_cols"]
required_cols(mode) ==
    CASE mode = "Main Leaderboard" ->
           <<<<"N", "o">>,
             <<"C", "r", "e", "a", "t", "o", "r", " ", "N", "a", "m", "e">>,
             <<"U", "s", "e", "r", "n", "a", "m", "e">>,
             <<"P", "o", "s", "t">>,
             <<"R", "e", "d", "e", "m", "p", "t", "i", "o", "n", " ", "G", "M", "V">>,
             <<"S", "t", "a", "t", "u", "s">>,
             <<"H", "a", "d", "i", "a", "h">>,
             <<"L", "e", "v", "e", "l">>>>
      [] mode = "All Industry Bonus" ->
           <<<<"U", "s", "e", "r", "n", "a", "m", "e">>,
             <<"G", "M", "V">>,
             <<"O", "r", "d", "e", "r", " ", "A", "c", "c", "o", "m", "m", "o", "d", "a", "t", "i", "o", "n">>,
             <<"O", "r", "d", "e", "r", " ", "D", "i", "n", "i", "n", "g">>,
             <<"O", "r", "d", "e", "r", " ", "t", "h", "i", "n", "g", "s", " ", "t", "o", " ", "D", "o">>,
             <<"S", "y", "a", "r", "a", "t", " ", "p", "e", "n", "j", "u", "a", "l", "a", "n">>,
             <<"K", "u", "r", "a", "n", "g", " ", "p", "e", "n", "j", "u", "a", "l", "a", "n">>,
             <<"S", "t", "a", "t", "u", "s">>,
             <<"B", "o", "n", "u", "s">>>>
      [] OTHER ->
           <<<<"C", "r", "e", "a", "t", "o", "r", " ", "N", "a", "m", "e">>,
             <<"P", "e", "n", "j", "u", "a", "l", "a", "n", " ", "D", "i", "n", "i", "n", "g">>,
             <<"S", "y", "a", "r", "a", "t", " ", "p", "e", "n", "j", "u", "a", "l", "a", "n">>,
             <<"K", "u", "r", "a", "n", "g", " ", "p", "e", "n", "j", "u", "a", "l", "a", "n">>,
             <<"S", "t", "a", "t", "u", "s">>,
             <<"B", "o", "n", "u", "s">>>>

\* values of the normalized frame and of the destination tables: Python's
\* None, an int, a str
NoneValue == [k |-> "null"]

IntValue(n) == [k |-> "int", v |-> n]

TextValue(s) == [k |-> "text", v |-> s]

DigitChars == <<"0", "1", "2", "3", "4", "5", "6", "7", "8", "9">>

\* str(v) of a cell of the uploaded table; a missing cell is NaN
\* cells of a numeric column: an int n, and the float n.0 that a numeric
\* column with blanks holds
IntCell(n) == <<"int", n>>

FloatCell(n) == <<"float", n>>

is_int(v) == Len(v) = 2 /\ v[1] = "int"

is_float(v) == Len(v) = 2 /\ v[1] = "float"

\* the decimal digits of a whole number n >= 0
RECURSIVE decimal(_)
decimal(n) ==
    IF n < 10 THEN <<DigitChars[n + 1]>>
    ELSE decimal(n \div 10) \o <<DigitChars[(n % 10) + 1]>>

\* str(n) of an int
str_int(n) == IF n < 0 THEN <<"-">> \o decimal(0 - n) ELSE decimal(n)

\* str(v) of a cell of the uploaded table: a missing cell is NaN, a whole
\* float below 1e16 prints with ".0", a text is itself
str(v) ==
    IF isna(v) THEN <<"n", "a", "n">>
    ELSE IF is_int(v) THEN str_int(v[2])
    ELSE IF is_float(v) THEN str_int(v[2]) \o <<".", "0">>
    ELSE v

\* s.replace(old, ""): every occurrence of old removed, left to right
RECURSIVE remove_all(_, _)
remove_all(s, old) ==
    IF Len(s) < Len(old) THEN s
    ELSE IF SubSeq(s, 1, Len(old)) = old THEN remove_all(SubSeq(s, Len(old) + 1, Len(s)), old)
    ELSE <<Head(s)>> \o remove_all(Tail(s), old)

\* re.sub(r"[^0-9\-]", "", s)
digits_and_minus(s) == SelectSeq(s, LAMBDA c : c = "-" \/ \E d \in 1..10 : DigitChars[d] = c)

RECURSIVE digits_value(_)
digits_value(s) ==
    IF s = <<>> THEN 0
    ELSE 10 * digits_value(SubSeq(s, 1, Len(s) - 1))
         + (CHOOSE d \in 0..9 : DigitChars[d + 1] = s[Len(s)])

\* int(s) of a text of digits and minus signs: raises unless the text is
\* digits with at most one leading minus
int(s) ==
    LET digits == IF Head(s) = "-" THEN Tail(s) ELSE s
    IN IF digits = <<>> \/ \E i \in 1..Len(digits) : digits[i] = "-"
       THEN [raised |-> TRUE, value |-> 0]
       ELSE [raised |-> FALSE,
             value |-> IF Head(s) = "-" THEN 0 - digits_value(digits) ELSE digits_value(digits)]

\* _clean_int without the try around int(s): what int(s) raises leaves the
\* function
clean_int_uncaught(v) ==
    IF isna(v) THEN NoneValue
    ELSE LET s0 == strip(str(v))
             s1 == SelectSeq(s0, LAMBDA c : c \notin {",", " "})
             s2 == digits_and_minus(s1)
         IN IF s0 = <<>> \/ lower(s0) \in {<<"n", "a", "n">>, <<"n", "o", "n", "e">>} THEN NoneValue
            ELSE IF s2 \in {<<>>, <<"-">>} THEN NoneValue
            ELSE IF int(s2).raised THEN [k |-> "raised"]
            ELSE IntValue(int(s2).value)

clean_int(v) ==
    IF isna(v) THEN NoneValue
    ELSE LET s0 == strip(str(v))
             s1 == SelectSeq(s0, LAMBDA c : c \notin {",", " "})
             s2 == digits_and_minus(s1)
         IN IF s0 = <<>> \/ lower(s0) \in {<<"n", "a", "n">>, <<"n", "o", "n", "e">>} THEN NoneValue
            ELSE IF s2 \in {<<>>, <<"-">>} THEN NoneValue
            ELSE IF int(s2).raised THEN NoneValue
            ELSE IntValue(int(s2).value)

\* a reading of the amount that takes "." for a decimal point and keeps the
\* whole part only
clean_idr_decimal_point(v) ==
    IF isna(v) THEN NoneValue
    ELSE LET s0 == strip(str(v))
             dot == IF \E i \in 1..Len(s0) : s0[i] = "."
                    THEN CHOOSE i \in 1..Len(s0) : s0[i] = "." /\ \A j \in 1..(i - 1) : s0[j] # "."
                    ELSE Len(s0) + 1
             s3 == digits_and_minus(SubSeq(s0, 1, dot - 1))
         IN IF s0 = <<>> \/ lower(s0) \in {<<"n", "a", "n">>, <<"n", "o", "n", "e">>} THEN NoneValue
            ELSE IF s3 \in {<<>>, <<"-">>} THEN NoneValue
            ELSE IF int(s3).raised THEN NoneValue
            ELSE IntValue(int(s3).value)

clean_idr(v) ==
    IF isna(v) THEN NoneValue
    ELSE LET s0 == strip(str(v))
             s1 == remove_all(remove_all(s0, <<"R", "p">>), <<"r", "p">>)
             s2 == remove_all(remove_all(remove_all(s1, <<".">>), <<" ">>), <<",">>)
             s3 == digits_and_minus(s2)
         IN IF s0 = <<>> \/ lower(s0) \in {<<"n", "a", "n">>, <<"n", "o", "n", "e">>} THEN NoneValue
            ELSE IF s3 \in {<<>>, <<"-">>} THEN NoneValue
            ELSE IF int(s3).raised THEN NoneValue
            ELSE IntValue(int(s3).value)

\* .astype(str).str.strip() of one cell
clean_text(v) == TextValue(strip(str(v)))

\* the same followed by .replace({".": None, "": None})
clean_text_or_none(v) ==
    IF strip(str(v)) \in {<<".">>, <<>>} THEN NoneValue ELSE TextValue(strip(str(v)))

\* f"{n:,}" of the digits of a whole number: a comma before every group of
\* three digits counted from the right
RECURSIVE group3(_)
group3(digits) ==
    IF Len(digits) <= 3 THEN digits
    ELSE group3(SubSeq(digits, 1, Len(digits) - 3)) \o <<",">>
         \o SubSeq(digits, Len(digits) - 2, Len(digits))

\* f"{n:,}" of an int: the sign stays in front of the grouped digits
format_grouped(n) ==
    IF n < 0 THEN <<"-">> \o group3(decimal(0 - n)) ELSE group3(decimal(n))

\* s.replace(old, new) for one-character old and new
replace(s, old, new) == [i \in 1..Len(s) |-> IF s[i] = old THEN new ELSE s[i]]

\* leaderboard_page._format_idr of a stored amount: NaN prints as "-", a
\* number as "Rp" and its digits grouped by dots, anything int() rejects as
\* its own text
format_idr(n) ==
    IF isna(n) THEN <<"-">>
    ELSE IF is_int(n) \/ is_float(n)
         THEN <<"R", "p">> \o replace(format_grouped(n[2]), ",", ".")
    ELSE LET s == strip(n)
         IN IF s # <<>> /\ digits_and_minus(s) = s /\ ~int(s).raised
            THEN <<"R", "p">> \o replace(format_grouped(int(s).value), ",", ".")
            ELSE n

\* _pick_col: col_map keeps, for each stripped lower-case name, the last
\* column of the table that has it
pick_col(df, col_name) ==
    LET key == lower(strip(col_name))
        hits == {i \in 1..Len(df.columns) : lower(strip(df.columns[i])) = key}
    IN IF hits = {} THEN [raised |-> TRUE, col |-> <<>>]
       ELSE [raised |-> FALSE, col |-> df.columns[CHOOSE i \in hits : \A j \in hits : j <= i]]

\* df[col]: the cells of one column, one per row
series(df, col) ==
    LET i == CHOOSE j \in 1..Len(df.columns) : df.columns[j] = col
    IN [r \in 1..Len(df.rows) |-> df.rows[r][i]]

clean(kind, v) ==
    CASE kind = "int" -> clean_int(v)
      [] kind = "idr" -> clean_idr(v)
      [] kind = "text" -> clean_text(v)
      [] OTHER -> clean_text_or_none(v)

\* _normalize_main_leaderboard: for each output column, the name handed to
\* _pick_col and the cleaning of the picked column
normalize_main_leaderboard ==
    <<[out |-> "rank_no", pick |-> <<"N", "o">>, kind |-> "int"],
      [out |-> "creator_name", pick |-> <<"C", "r", "e", "a", "t", "o", "r", " ", "N", "a", "m", "e">>, kind |-> "text_null"],
      [out |-> "username", pick |-> <<"U", "s", "e", "r", "n", "a", "m", "e">>, kind |-> "text_null"],
      [out |-> "post_count", pick |-> <<"P", "o", "s", "t">>, kind |-> "int"],
      [out |-> "redemption_gmv_idr", pick |-> <<"R", "e", "d", "e", "m", "p", "t", "i", "o", "n", " ", "G", "M", "V">>, kind |-> "idr"],
      [out |-> "status", pick |-> <<"S", "t", "a", "t", "u", "s">>, kind |-> "text"],
      [out |-> "hadiah_idr", pick |-> <<"H", "a", "d", "i", "a", "h">>, kind |-> "idr"],
      [out |-> "level", pick |-> <<"L", "e", "v", "e", "l">>, kind |-> "int"]>>

\* _normalize_all_industry_bonus: for each output column, the name handed to
\* _pick_col and the cleaning of the picked column
normalize_all_industry_bonus ==
    <<[out |-> "username", pick |-> <<"U", "s", "e", "r", "n", "a", "m", "e">>, kind |-> "text_null"],
      [out |-> "gmv_idr", pick |-> <<"G", "M", "V">>, kind |-> "idr"],
      [out |-> "order_accommodation", pick |-> <<"O", "r", "d", "e", "r", " ", "A", "c", "c", "o", "m", "m", "o", "d", "a", "t", "i", "o", "n">>, kind |-> "int"],
      [out |-> "order_dining", pick |-> <<"O", "r", "d", "e", "r", " ", "D", "i", "n", "i", "n", "g">>, kind |-> "int"],
      [out |-> "order_things_to_do", pick |-> <<"O", "r", "d", "e", "r", " ", "t", "h", "i", "n", "g", "s", " ", "t", "o", " ", "D", "o">>, kind |-> "int"],
      [out |-> "syarat_penjualan_idr", pick |-> <<"S", "y", "a", "r", "a", "t", " ", "p", "e", "n", "j", "u", "a", "l", "a", "n">>, kind |-> "idr"],
      [out |-> "kurang_penjualan_idr", pick |-> <<"K", "u", "r", "a", "n", "g", " ", "p", "e", "n", "j", "u", "a", "l", "a", "n">>, kind |-> "idr"],
      [out |-> "status", pick |-> <<"S", "t", "a", "t", "u", "s">>, kind |-> "text"],
      [out |-> "bonus_idr", pick |-> <<"B", "o", "n", "u", "s">>, kind |-> "idr"]>>

\* _normalize_dining_bonus: for each output column, the name handed to
\* _pick_col and the cleaning of the picked column
normalize_dining_bonus ==
    <<[out |-> "creator_name", pick |-> <<"C", "r", "e", "a", "t", "o", "r", " ", "N", "a", "m", "e">>, kind |-> "text_null"],
      [out |-> "penjualan_dining_idr", pick |-> <<"P", "e", "n", "j", "u", "a", "l", "a", "n", " ", "D", "i", "n", "i", "n", "g">>, kind |-> "idr"],
      [out |-> "syarat_penjualan_idr", pick |-> <<"S", "y", "a", "r", "a", "t", " ", "p", "e", "n", "j", "u", "a", "l", "a", "n">>, kind |-> "idr"],
      [out |-> "kurang_penjualan_idr", pick |-> <<"K", "u", "r", "a", "n", "g", " ", "p", "e", "n", "j", "u", "a", "l", "a", "n">>, kind |-> "idr"],
      [out |-> "status", pick |-> <<"S", "t", "a", "t", "u", "s">>, kind |-> "text"],
      [out |-> "bonus_idr", pick |-> <<"B", "o", "n", "u", "s">>, kind |-> "idr"]>>

normalizer(mode) ==
    CASE mode = "Main Leaderboard" -> normalize_main_leaderboard
      [] mode = "All Industry Bonus" -> normalize_all_industry_bonus
      [] OTHER -> normalize_dining_bonus

\* a normalization that drops the rows in which a number or an amount came
\* out null
normalize_dropna(df, mode) ==
    LET plan == normalizer(mode)
        outs == {plan[j].out : j \in 1..Len(plan)}
        entry(o) == plan[CHOOSE j \in 1..Len(plan) : plan[j].out = o]
        numeric == {o \in outs : entry(o).kind \in {"int", "idr"}}
    IN IF \E j \in 1..Len(plan) : pick_col(df, plan[j].pick).raised
       THEN [raised |-> TRUE, df_norm |-> <<>>]
       ELSE [raised |-> FALSE,
             df_norm |-> SelectSeq([r \in 1..Len(df.rows) |->
                                       [o \in outs |-> clean(entry(o).kind,
                                                             series(df, pick_col(df, entry(o).pick).col)[r])]],
                                   LAMBDA row : \A o \in numeric : row[o] # NoneValue)]

\* the try/except around the normalizer call: df_norm, or the ValueError of
\* _pick_col
normalize(df, mode) ==
    LET plan == normalizer(mode)
        outs == {plan[j].out : j \in 1..Len(plan)}
        entry(o) == plan[CHOOSE j \in 1..Len(plan) : plan[j].out = o]
    IN IF \E j \in 1..Len(plan) : pick_col(df, plan[j].pick).raised
       THEN [raised |-> TRUE, df_norm |-> <<>>]
       ELSE [raised |-> FALSE,
             df_norm |-> [r \in 1..Len(df.rows) |->
                 [o \in outs |-> clean(entry(o).kind,
                                       series(df, pick_col(df, entry(o).pick).col)[r])]]]

\* the `cols` list of _insert
insert_cols(mode) ==
    CASE mode = "Main Leaderboard" ->
           <<"rank_no", "creator_name", "username", "post_count", "redemption_gmv_idr", "status", "hadiah_idr", "level">>
      [] mode = "All Industry Bonus" ->
           <<"username", "gmv_idr", "order_accommodation", "order_dining", "order_things_to_do", "syarat_penjualan_idr", "kurang_penjualan_idr", "status", "bonus_idr">>
      [] OTHER ->
           <<"creator_name", "penjualan_dining_idr", "syarat_penjualan_idr", "kurang_penjualan_idr", "status", "bonus_idr">>

\* the required names with no column of the same letters in the same case
missing_exact(df, required) ==
    SelectSeq(required, LAMBDA c : c \notin {df.columns[i] : i \in 1..Len(df.columns)})

\* the column validation of render
missing(df, required) ==
    SelectSeq(required,
              LAMBDA c : lower(c) \notin {lower(strip(df.columns[i])) : i \in 1..Len(df.columns)})

\* render up to the import button: how far it gets with the uploaded table
\* before it returns, the missing columns it reports and the normalized
\* frame it previews
render(df, mode) ==
    IF df = <<>>
    THEN [outcome |-> "no_file", missing |-> <<>>, df_norm |-> <<>>]
    ELSE IF missing(df, required_cols(mode)) # <<>>
    THEN [outcome |-> "missing_columns", missing |-> missing(df, required_cols(mode)),
          df_norm |-> <<>>]
    ELSE IF normalize(df, mode).raised
    THEN [outcome |-> "normalization_failed", missing |-> <<>>, df_norm |-> <<>>]
    ELSE [outcome |-> "ready", missing |-> <<>>, df_norm |-> normalize(df, mode).df_norm]

\* the statements of the import transaction
ensure_table(tables, mode) ==
    IF tables[mode].exists THEN tables
    ELSE [tables EXCEPT ![mode] = [exists |-> TRUE, rows |-> <<>>]]

\* a TRUNCATE that removes nothing
truncate_nothing(tables, mode) == tables

truncate(tables, mode) == [tables EXCEPT ![mode].rows = <<>>]

insert(tables, mode, df_norm) ==
    LET cols == insert_cols(mode)
        rows == [r \in 1..Len(df_norm) |->
                    [c \in {cols[j] : j \in 1..Len(cols)} |-> df_norm[r][c]]]
    IN [tables EXCEPT ![mode].rows = @ \o rows]

\* the statements inside `with conn:`, in order, up to the one that raises:
\* whether one raised and what the tables hold, uncommitted, at that point
import_statements(tables, mode, df_norm, clear_first, fail_step) ==
    LET created == ensure_table(tables, mode)
        cleared == IF clear_first THEN truncate(created, mode) ELSE created
    IN CASE fail_step \in {"schema", "table"} -> [raised |-> TRUE, tables |-> tables]
         [] fail_step = "truncate" -> [raised |-> TRUE, tables |-> created]
         [] fail_step = "insert" -> [raised |-> TRUE, tables |-> cleared]
         [] OTHER -> [raised |-> FALSE, tables |-> insert(cleared, mode, df_norm)]

\* the statements, each committed as it runs
import_transaction_autocommit(tables, mode, df_norm, clear_first, fail_step) ==
    import_statements(tables, mode, df_norm, clear_first, fail_step).tables

\* the `with conn:` block of render: commit when the block ends, rollback of
\* every statement when one of them raises
import_transaction(tables, mode, df_norm, clear_first, fail_step) ==
    LET r == import_statements(tables, mode, df_norm, clear_first, fail_step)
    IN IF r.raised THEN tables ELSE r.tables

\* ------------------------------------------------- CSV files the user has
\* cells of a data row, by the cleaning its column gets; there are three
\* kinds of row, the third with numbers and amounts that cannot be read
Cell(template, kind) ==
    IF template = 1
    THEN CASE kind = "int" -> <<" ", "1", ",", "2">>
           [] kind = "idr" -> <<"R", "p", "3", ".", "0">>
           [] kind = "text" -> <<"O", "K", " ">>
           [] OTHER -> <<" ", "B", "o">>
    ELSE IF template = 3
    THEN CASE kind = "int" -> <<"1", "-", "2">>
           [] kind = "idr" -> <<"R", "p", " ", "x">>
           [] kind = "text" -> <<" ", "N", "o">>
           [] OTHER -> <<"A", "l">>
    ELSE CASE kind = "int" -> None
           [] kind = "idr" -> <<"-", "R", "p", "5">>
           [] kind = "text" -> None
           [] OTHER -> <<".">>

\* the data rows of a file: one row of the first kind unless said otherwise
OneRow == <<1>>

TwoRows == <<2, 1>>

MalformedRows == <<3, 1>>

\* a column name that differs from `name` inside, not around it
near_miss(name) == <<Head(name), " ">> \o Tail(name)

styled(name, style) ==
    IF style = "exact" THEN name ELSE <<" ">> \o lower(name) \o <<" ", " ">>

\* the table pd.read_csv gives for a file made for mode src: the columns in
\* `dropped` misnamed, the others written in `style`, with a second column
\* for the first name when `dup`
read_csv(src, dropped, style, dup, data) ==
    LET R == required_cols(src)
        plan == normalizer(src)
        kind(j) == plan[CHOOSE e \in 1..Len(plan) : plan[e].pick = R[IF j > Len(R) THEN 1 ELSE j]].kind
        cols == [j \in 1..Len(R) |-> IF j \in dropped THEN near_miss(R[j]) ELSE styled(R[j], style)]
                \o (IF dup THEN <<<<" ">> \o lower(R[1])>> ELSE <<>>)
    IN [columns |-> cols,
        rows |-> [r \in 1..Len(data) |->
                    [j \in 1..Len(cols) |->
                        Cell(IF j > Len(R) THEN 3 - data[r] ELSE data[r], kind(j))]]]

\* the files the user may upload while `mode` is selected: files of the mode
\* with up to MaxMissing neighbouring columns misnamed, and files of the
\* other modes
Uploads(mode) ==
    LET n == Len(required_cols(mode))
    IN {read_csv(mode, {j \in 1..n : first <= j /\ j < first + k}, "padded", FALSE, OneRow) :
            first \in 1..n, k \in 0..MaxMissing}
       \cup {read_csv(mode, {}, "exact", dup, IF dup THEN MalformedRows ELSE OneRow) :
                dup \in BOOLEAN}
       \cup {read_csv(mode, {}, "exact", FALSE, TwoRows)}
       \cup {read_csv(m, {}, "padded", FALSE, OneRow) : m \in Modes \ {mode}}

\* render over the files of Uploads, tabulated
Rendered == [mode \in Modes |-> [df \in Uploads(mode) |-> render(df, mode)]]

\* the tables of schema leaderboard when the session starts: an earlier
\* load has left one row in the Dining Bonus table, the other tables do not
\* exist yet
InitTables ==
    import_transaction([m \in Modes |-> [exists |-> FALSE, rows |-> <<>>]],
                       "Dining Bonus",
                       normalize(read_csv("Dining Bonus", {}, "exact", FALSE, OneRow),
                                 "Dining Bonus").df_norm,
                       TRUE, "none")

LbDid(op, result) ==
    [op |-> op, result |-> result, inserted |-> 0, clear_first |-> FALSE, fail_step |-> "none"]

\* --------------------------------------------- cells the cleaners are given
NoCall == [fn |-> "none", style |-> "none"]

Amounts == {0, 7, 12, 999, 1000, 1001, 10050, 1234567, 56000000}

NegAmounts == {0 - 7, 0 - 1000, 0 - 21455789}

\* the ways a cell of a CSV file holds the whole number n: typed by pandas
\* as an int or as the float n.0, as the text of n, as an amount with comma
\* grouping behind "Rp", and as a negative amount with the minus before "Rp"
written(n, style) ==
    CASE style = "int" -> IntCell(n)
      [] style = "float" -> FloatCell(n)
      [] style = "str" -> str_int(n)
      [] style = "comma" -> <<"R", "p">> \o format_grouped(n)
      [] style = "minus_prefix" -> <<"-", "R", "p">> \o format_grouped(0 - n)

\* cells that hold no whole number, or hold one among other characters
RawCells ==
    { None, <<>>, <<" ">>, <<"n", "a", "n">>, <<"N", "a", "N">>, <<"n", "o", "n", "e">>,
      <<"N", "o", "n", "e", " ">>, <<"-">>, <<" ", "-", " ">>, <<".">>, <<"a", "b">>,
      <<"R", "p">>, <<"-", "-">>, <<"1", "-", "2">>, <<"-", "-", "5">>, <<"5", "-">>,
      <<"-", " ", "5">>, <<"1", ".", "5">>, <<" ", "1", ",", "2">>, <<"r", "p", "5">>,
      <<"R", "p", " ", "-", "3">>, <<"5", "6", ",", "0", "0", "0">> }

CellInputs ==
    {[amount |-> n, style |-> st, cell |-> written(n, st)] :
        n \in Amounts \cup NegAmounts, st \in {"int", "float", "str"}}
    \cup {[amount |-> n, style |-> "comma", cell |-> written(n, "comma")] : n \in Amounts}
    \cup {[amount |-> n, style |-> "minus_prefix", cell |-> written(n, "minus_prefix")] :
             n \in NegAmounts}
    \cup {[amount |-> 0, style |-> "text", cell |-> c] : c \in RawCells}

\* the value a cleaner returned, as the cell a second call is given
as_cell(value) == IF value = NoneValue THEN None ELSE IntCell(value.v)

\* -------------------------------------------------------- creator_list.py
\* a text of which the page looks at no single character
Str(name) == <<name>>

\* the first two of the six entries of AGENCY_OPTIONS
AGENCY_OPTIONS == <<Str("Adtree Digital Indonesia"), Str("Golden Maker")>>

\* the float NaN that pandas puts for a missing number
NaN == <<"NaN">>

pd_isna(v) == v = None \/ v = NaN

Date(d) == <<"date", d>>

\* dt.date.today()
Today == Date(9)

CreatorIds == {1, 2}

\* public.agency_map as the session may find it: with every agency of
\* AGENCY_OPTIONS and one that the list does not have, or without the row of
\* the second option
AgencyMaps ==
    <<(1 :> Str("Adtree Digital Indonesia")) @@ (2 :> Str("Golden Maker")) @@ (3 :> Str("Legacy Agency")),
      (1 :> Str("Adtree Digital Indonesia")) @@ (3 :> Str("Legacy Agency"))>>

\* rows of public.creator_registry (agency_id 0: NULL): one with every field
\* filled, one as creator_registry_page.py registers it with no followers,
\* uid, onboarding date or notes, and one of an agency that is not listed
CreatorRows ==
    LET filled == [agency_id |-> 1, tiktok_id |-> Str("tiktok"), followers |-> IntCell(5),
                   full_name |-> Str("Name"), domicile |-> Str("City"), uid |-> <<"1", "2">>,
                   phone_number |-> <<"+", "6", "2", "8">>, tiktok_link |-> Str("link"),
                   binding_status |-> Str("Bound"), onboarding_date |-> Date(3),
                   month_label |-> Str("2025-01"), notes |-> Str("note")]
    IN <<filled,
         [filled EXCEPT !.followers = None, !.uid = None, !.binding_status = Str("Unbound"),
                        !.onboarding_date = None, !.notes = None],
         [filled EXCEPT !.agency_id = 3]>>

\* the row with the tiktok_id of its creator
CreatorRow(template, id) ==
    [CreatorRows[template] EXCEPT !.tiktok_id = Str(IF id = 1 THEN "tiktok1" ELSE "tiktok2")]

\* fetch_creator_registry into pd.DataFrame: the row joined with agency_map;
\* a missing number is NaN when the column holds a number in another row
creator_frame_row(id) ==
    LET r == creator_registry[id]
    IN [id |-> id,
        agency_name |-> IF r.agency_id \in DOMAIN agency_map THEN agency_map[r.agency_id] ELSE None,
        tiktok_id |-> r.tiktok_id,
        followers |-> IF r.followers = None
                         /\ \E j \in DOMAIN creator_registry : creator_registry[j].followers # None
                      THEN NaN ELSE r.followers,
        full_name |-> r.full_name,
        domicile |-> r.domicile,
        uid |-> r.uid,
        phone_number |-> r.phone_number,
        tiktok_link |-> r.tiktok_link,
        binding_status |-> r.binding_status,
        onboarding_date |-> r.onboarding_date,
        month_label |-> r.month_label,
        notes |-> r.notes]

\* v or "" of a text that may be None
or_empty(v) == IF v = None THEN <<>> ELSE v

\* the values the widgets of edit_creator_form start with
form_defaults(row) ==
    [agency_name |-> IF \E k \in 1..Len(AGENCY_OPTIONS) : AGENCY_OPTIONS[k] = row.agency_name
                     THEN row.agency_name ELSE AGENCY_OPTIONS[1],
     tiktok_id |-> row.tiktok_id,
     followers |-> IF pd_isna(row.followers) THEN IntCell(0) ELSE row.followers,
     full_name |-> row.full_name,
     domicile |-> row.domicile,
     uid |-> or_empty(row.uid),
     phone_number |-> remove_all(or_empty(row.phone_number), <<"+", "6", "2">>),
     tiktok_link |-> row.tiktok_link,
     binding_status |-> IF row.binding_status = Str("Unbound") THEN Str("Unbound") ELSE Str("Bound"),
     onboarding_date |-> IF pd_isna(row.onboarding_date) THEN Today ELSE row.onboarding_date,
     month_label |-> row.month_label,
     notes |-> or_empty(row.notes)]

\* str.isdigit()
isdigit(s) == s # <<>> /\ \A i \in 1..Len(s) : \E d \in 1..10 : DigitChars[d] = s[i]

\* s.startswith(prefix)
startswith(s, prefix) == Len(s) >= Len(prefix) /\ SubSeq(s, 1, Len(prefix)) = prefix

\* the validation of "Apply Changes": the error it stops with, or "ok"
form_error(form) ==
    IF or_empty(form.uid) # <<>> /\ ~isdigit(or_empty(form.uid)) THEN "uid_error"
    ELSE IF startswith(form.phone_number, <<"+">>) \/ startswith(form.phone_number, <<"6", "2">>)
    THEN "phone_error"
    ELSE IF ~isdigit(form.phone_number) THEN "phone_error"
    ELSE "ok"

\* the new_val handed to check_change for each key
new_values(form) ==
    [agency_name |-> form.agency_name,
     tiktok_id |-> form.tiktok_id,
     followers |-> IF form.followers[2] > 0 THEN form.followers ELSE None,
     full_name |-> form.full_name,
     domicile |-> form.domicile,
     uid |-> form.uid,
     phone_number |-> <<"+", "6", "2">> \o form.phone_number,
     tiktok_link |-> form.tiktok_link,
     binding_status |-> form.binding_status,
     onboarding_date |-> form.onboarding_date,
     month_label |-> form.month_label,
     notes |-> IF form.notes # <<>> THEN form.notes ELSE None]

\* row[key] != new_val: NaN differs from everything
check_change(old_val, new_val) == old_val = NaN \/ new_val = NaN \/ old_val # new_val

\* updated_fields after the twelve calls of check_change
updated_fields(row, form) ==
    LET new == new_values(form)
    IN [key \in {k \in DOMAIN new : check_change(row[k], new[k])} |-> new[key]]

\* get_agency_id_by_name: the id of the agency_map row of that name, None
\* (0) when there is none
get_agency_id_by_name(map, agency_name) ==
    IF \E i \in DOMAIN map : map[i] = agency_name
    THEN CHOOSE i \in DOMAIN map : map[i] = agency_name
    ELSE 0

\* update_creator_registry_row: agency_name replaced by the agency_id found
\* for it, then one UPDATE that sets every key of updated_fields
update_creator_registry_row(table, map, row_id, fields) ==
    IF DOMAIN fields = {} THEN table
    ELSE LET set_of(key) == IF key = "agency_id"
                            THEN get_agency_id_by_name(map, fields["agency_name"])
                            ELSE fields[key]
             keys == (DOMAIN fields \ {"agency_name"})
                     \cup (IF "agency_name" \in DOMAIN fields THEN {"agency_id"} ELSE {})
         IN IF row_id \in DOMAIN table
            THEN [table EXCEPT ![row_id] =
                     [key \in DOMAIN @ |-> IF key \in keys THEN set_of(key) ELSE @[key]]]
            ELSE table

NoSubmit == [op |-> "none", result |-> "none", row_id |-> 0, updated_fields |-> <<>>, altered |-> {}]

\* what the operator may type or pick in the form: the second agency, a uid
\* that is not a number, a number of followers, a phone number with the
\* country code, a note
AlterInputs ==
    {<<"agency_name", AGENCY_OPTIONS[2]>>, <<"uid", <<"x">>>>, <<"followers", IntCell(7)>>,
     <<"phone_number", <<"6", "2", "8">>>>, <<"notes", Str("new")>>}

\* ----------------------------------------- connections of the store operations
\* where a store operation raises: nowhere, in get_connection, or in a
\* statement it executes
FailPoints == {"none", "connect", "execute"}

\* try: ... finally: conn.close() entered once get_connection has returned,
\* but closing only when nothing raised
scoped_without_finally(fail) ==
    CASE fail = "connect" -> <<>>
      [] fail = "execute" -> <<"open">>
      [] OTHER -> <<"open", "close">>

\* conn = get_connection(); try: ... finally: conn.close()
scoped(fail) == IF fail = "connect" THEN <<>> ELSE <<"open", "close">>

\* bulk_update_content_submissions: nothing for an empty list
bulk_update_events(no_updates, fail) == IF no_updates THEN <<>> ELSE scoped(fail)

\* update_creator_registry_row: nothing for no fields; the agency lookup on
\* a connection of its own, then, unless the lookup raised, the UPDATE
update_creator_events(no_fields, with_agency, fail_lookup, fail) ==
    IF no_fields THEN <<>>
    ELSE IF ~with_agency THEN scoped(fail)
    ELSE IF fail_lookup # "none" THEN scoped(fail_lookup)
    ELSE scoped(fail_lookup) \o scoped(fail)

\* insert_creator_registry_row: the agency lookup, then the INSERT
insert_creator_events(fail_lookup, fail) ==
    IF fail_lookup # "none" THEN scoped(fail_lookup)
    ELSE scoped(fail_lookup) \o scoped(fail)

\* fetch_content_submissions, fetch_status_map, fetch_creator_registry
fetch_events(fail) == scoped(fail)

\* the "Import to DB" branch of leaderboard.render
leaderboard_load_events(fail) == scoped(fail)

\* the connections open after the events, n being open before
RECURSIVE open_after(_, _)
open_after(n, events) ==
    IF events = <<>> THEN n
    ELSE open_after(IF Head(events) = "open" THEN n + 1 ELSE n - 1, Tail(events))

\* whether the operation ended by raising
call_raised(no_work, with_lookup, fail_lookup, fail) ==
    ~no_work /\ (fail # "none" \/ (with_lookup /\ fail_lookup # "none"))

NoOperation == [op |-> "none", raised |-> FALSE, events |-> <<>>]

\* the store operations and how each may be called: op, nothing to do,
\* with the agency lookup, where the lookup raises, where the operation
\* raises
StoreCalls ==
    {<<"bulk_update_content_submissions", e, FALSE, "none", f>> : e \in BOOLEAN, f \in FailPoints}
    \cup {<<"update_creator_registry_row", e, a, fl, f>> :
             e \in BOOLEAN, a \in BOOLEAN, fl \in FailPoints, f \in FailPoints}
    \cup {<<"insert_creator_registry_row", FALSE, TRUE, fl, f>> : fl \in FailPoints, f \in FailPoints}
    \cup {<<op, FALSE, FALSE, "none", f>> :
             op \in {"fetch_content_submissions", "fetch_status_map", "fetch_creator_registry",
                     "leaderboard_load"},
             f \in FailPoints}

\* the events of one call
call_events(c) ==
    CASE c[1] = "bulk_update_content_submissions" -> bulk_update_events(c[2], c[5])
      [] c[1] = "update_creator_registry_row" -> update_creator_events(c[2], c[3], c[4], c[5])
      [] c[1] = "insert_creator_registry_row" -> insert_creator_events(c[4], c[5])
      [] c[1] = "leaderboard_load" -> leaderboard_load_events(c[5])
      [] OTHER -> fetch_events(c[5])

\* ------------------------------------------------- the content submission form
\* browser sessions that have the form open at the same time
Sessions == {1, 2}

\* "sub" in s, for str
has(s, sub) == \E i \in 1..(Len(s) - Len(sub) + 1) : SubSeq(s, i, i + Len(sub) - 1) = sub

tiktok == <<"t", "i", "k", "t", "o", "k">>

\* what an operator may type in "TikTok Post Link:"
FormLinks ==
    { <<>>,
      <<" ">>,
      tiktok \o <<"1">>,
      <<" ">> \o tiktok \o <<"1", " ">>,
      <<"T", "i", "k", "T", "o", "k", "1">>,
      <<"v", "t", "1">>,
      tiktok \o <<"@", "1">>,
      tiktok \o <<" ", "1">> }

\* TRIM(text) of the store
sql_trim(s) == strip(s)

\* is_link_already_submitted against the rows the shared connection sees
is_link_already_submitted(rows, link_post) ==
    IF link_post = <<>> THEN FALSE
    ELSE \E k \in 1..Len(rows) : sql_trim(rows[k]) = sql_trim(link_post)

\* the validation chain after "Save", up to the duplicate check: the
\* error shown, or "insert" when the else branch is reached
validation(rows, link_post) ==
    LET clean_link == strip(link_post) IN
    CASE clean_link = <<>> -> "required"
      [] ~has(lower(clean_link), tiktok) -> "no_tiktok"
      [] has(clean_link, <<"@">>) -> "at_symbol"
      [] has(clean_link, <<" ">>) -> "spaces"
      [] is_link_already_submitted(rows, clean_link) -> "duplicate"
      [] OTHER -> "insert"

\* insert_submission: the INSERT and the commit, or the rollback when the
\* store raises
insert_submission(rows, link_post, raises) ==
    IF raises THEN rows ELSE Append(rows, link_post)

Idle == [step |-> "idle", link_post |-> <<>>]

NoSave == [session |-> 0, step |-> "none", outcome |-> "none", link_post |-> <<>>]

\* ------------------------------------------------------------ the actions
InitPages ==
    /\ content_submissions = [i \in Ids |-> InitRow(i)]
    /\ status_map = StatusIds
    /\ qc_batch = <<>>
    /\ qc_batch_original = <<>>
    /\ qc_editor = <<>>
    /\ qc_success_msg = 0
    /\ qc_success_count = 0
    /\ last = NoImport
    /\ n_ext = 0
    /\ n_edits = 0
    /\ import_mode = "Main Leaderboard"
    /\ uploaded = <<>>
    /\ leaderboard = InitTables
    /\ page = render(<<>>, "Main Leaderboard")
    /\ lb_last = LbDid("none", "none")
    /\ n_imports = 0

\* no cleaner has been called
NoCells ==
    /\ amount = 0
    /\ cell = None
    /\ returned = NoneValue
    /\ call = NoCall

\* the Creator List page has not been opened
NoCreators ==
    /\ creator_registry = [i \in CreatorIds |-> CreatorRows[1]]
    /\ agency_map = AgencyMaps[1]
    /\ edit_form = <<>>
    /\ cr_last = NoSubmit

\* no store operation has been called
NoCalls ==
    /\ open_connections = 0
    /\ conn_last = NoOperation
    /\ n_calls = 0

\* nothing has been submitted through the form
NoSaves ==
    /\ form_submissions = <<>>
    /\ sessions = [s \in Sessions |-> Idle]
    /\ sub_last = NoSave
    /\ n_saves = 0

Init ==
    /\ InitPages
    /\ NoCells
    /\ NoCreators
    /\ NoCalls
    /\ NoSaves

\* an export that replaces the baseline and keeps the working copy and the
\* editor buffer of the snapshot before
export_keeps_working_copy(start_date, end_date, tiktok_filter) ==
    /\ page_renders
    /\ {start_date, end_date} \subseteq min_posting_date..max_posting_date
    /\ LET original == original_df(start_date, end_date, tiktok_filter)
       IN /\ qc_success_msg' = 0
          /\ qc_success_count' = 0
          /\ qc_batch_original' = original
          /\ last' = Did("Export", IF original = <<>> THEN "empty" ELSE "ok")
    /\ UNCHANGED <<content_submissions, status_map, n_ext, n_edits, qc_batch, qc_editor>>
    /\ UNCHANGED <<lb_vars, cell_vars, cr_vars, conn_vars, sub_vars>>

\* an export that, when no row matches, clears the working copy only and
\* keeps the baseline of the snapshot before
export_keeps_baseline_when_empty(start_date, end_date, tiktok_filter) ==
    /\ page_renders
    /\ {start_date, end_date} \subseteq min_posting_date..max_posting_date
    /\ LET original == original_df(start_date, end_date, tiktok_filter)
       IN /\ qc_success_msg' = 0
          /\ qc_success_count' = 0
          /\ qc_batch_original' = IF original = <<>> THEN qc_batch_original ELSE original
          /\ qc_batch' = editable_df(original)
          /\ qc_editor' = <<>>
          /\ last' = Did("Export", IF original = <<>> THEN "empty" ELSE "ok")
    /\ UNCHANGED <<content_submissions, status_map, n_ext, n_edits>>
    /\ UNCHANGED <<lb_vars, cell_vars, cr_vars, conn_vars, sub_vars>>

\* the "Export QC Data" form button
Export(start_date, end_date, tiktok_filter) ==
    /\ page_renders
    /\ {start_date, end_date} \subseteq min_posting_date..max_posting_date
    /\ LET original == original_df(start_date, end_date, tiktok_filter)
       IN /\ qc_success_msg' = 0
          /\ qc_success_count' = 0
          /\ qc_batch_original' = original
          /\ qc_batch' = editable_df(original)
          /\ qc_editor' = <<>>
          /\ last' = Did("Export", IF original = <<>> THEN "empty" ELSE "ok")
    /\ UNCHANGED <<content_submissions, status_map, n_ext, n_edits>>
    /\ UNCHANGED <<lb_vars, cell_vars, cr_vars, conn_vars, sub_vars>>

editor_shown == page_renders /\ qc_batch # <<>>

\* the operator picks a status in the dropdown of one row
EditStatus(row_id, value) ==
    /\ editor_shown
    /\ n_edits < MaxEdits
    /\ row_id \in row_ids(qc_batch)
    /\ value \in status_options
    /\ qc_editor' = (<<row_id, "status_name">> :> value) @@ qc_editor
    /\ n_edits' = n_edits + 1
    /\ last' = NoImport
    /\ UNCHANGED <<content_submissions, status_map, qc_batch, qc_batch_original,
                   qc_success_msg, qc_success_count, n_ext>>
    /\ UNCHANGED <<lb_vars, cell_vars, cr_vars, conn_vars, sub_vars>>

\* the operator types into (or clears) the reason cell of one row
EditReason(row_id, value) ==
    /\ editor_shown
    /\ n_edits < MaxEdits
    /\ row_id \in row_ids(qc_batch)
    /\ qc_editor' = (<<row_id, "reason">> :> value) @@ qc_editor
    /\ n_edits' = n_edits + 1
    /\ last' = NoImport
    /\ UNCHANGED <<content_submissions, status_map, qc_batch, qc_batch_original,
                   qc_success_msg, qc_success_count, n_ext>>
    /\ UNCHANGED <<lb_vars, cell_vars, cr_vars, conn_vars, sub_vars>>

\* a session that records the success whether or not the call raised
session_after_apply_unguarded(raised, changes, cur) ==
    [qc_success_count |-> Len(changes),
     qc_success_msg |-> Len(changes),
     qc_batch_original |-> qc_batch_original,
     qc_batch |-> qc_batch]

\* a session that promotes the working copy whether or not the call raised
session_after_apply_promotes_always(raised, changes, cur) ==
    [qc_success_count |-> IF raised THEN qc_success_count ELSE Len(changes),
     qc_success_msg |-> IF raised THEN qc_success_msg ELSE Len(changes),
     qc_batch_original |-> new_base(cur),
     qc_batch |-> cur]

\* what the try/except around the update call leaves in the session:
\* success count, success message, baseline and snapshot
session_after_apply(raised, changes, cur) ==
    IF ~raised
    THEN [qc_success_count |-> Len(changes),
          qc_success_msg |-> Len(changes),
          qc_batch_original |-> new_base(cur),
          qc_batch |-> cur]
    ELSE [qc_success_count |-> qc_success_count,
          qc_success_msg |-> qc_success_msg,
          qc_batch_original |-> qc_batch_original,
          qc_batch |-> qc_batch]

\* the "Import QC Changes to DB" button; fail_at = k > 0: the store rejects
\* the k-th UPDATE of the batch
Import(fail_at) ==
    /\ editor_shown
    /\ LET cur == edited_df
           base == qc_batch_original
           changes == diff_changes(base, cur, status_name_to_id, 1)
           info == [op |-> "Import", result |-> "none", changes |-> changes,
                    status_changed |-> {i \in row_ids(cur) : status_changed(loc(base, i), loc(cur, i))},
                    reason_changed |-> {i \in row_ids(cur) : reason_changed(loc(base, i), loc(cur, i))},
                    skipped |-> {i \in row_ids(cur) : lookup_miss(loc(base, i), loc(cur, i), status_name_to_id)},
                    fail_at |-> fail_at]
           r == bulk_update_content_submissions(content_submissions, changes, fail_at)
           after == session_after_apply(r.raised, changes, cur)
       IN IF base = <<>>
          THEN /\ fail_at = 0
               /\ last' = Did("Import", "no_baseline")
               /\ UNCHANGED <<content_submissions, qc_batch, qc_batch_original,
                              qc_success_msg, qc_success_count>>
          ELSE IF changes = <<>>
          THEN /\ fail_at = 0
               /\ last' = [info EXCEPT !.result = "no_changes"]
               /\ UNCHANGED <<content_submissions, qc_batch, qc_batch_original,
                              qc_success_msg, qc_success_count>>
          ELSE /\ fail_at \in 0..Len(changes)
               /\ content_submissions' = r.table
               /\ qc_success_count' = after.qc_success_count
               /\ qc_success_msg' = after.qc_success_msg
               /\ qc_batch_original' = after.qc_batch_original
               /\ qc_batch' = after.qc_batch
               /\ last' = [info EXCEPT !.result = IF r.raised THEN "error" ELSE "ok"]
    /\ UNCHANGED <<status_map, qc_editor, n_ext, n_edits>>
    /\ UNCHANGED <<lb_vars, cell_vars, cr_vars, conn_vars, sub_vars>>

\* the "Clear" button under the success message
ClearSuccess ==
    /\ qc_success_msg # 0
    /\ qc_success_msg' = 0
    /\ qc_success_count' = 0
    /\ last' = NoImport
    /\ UNCHANGED <<content_submissions, status_map, qc_batch, qc_batch_original,
                   qc_editor, n_ext, n_edits>>
    /\ UNCHANGED <<lb_vars, cell_vars, cr_vars, conn_vars, sub_vars>>

\* another session updates a row of content_submissions: its status or its
\* reason
ExternalUpdate(id, fields) ==
    /\ n_ext < MaxExternal
    /\ id \in DOMAIN content_submissions
    /\ content_submissions' =
          [content_submissions EXCEPT ![id] =
              [status_id |-> IF "status_id" \in fields THEN ExternalStatus ELSE @.status_id,
               reason |-> IF "reason" \in fields THEN ExternalReason ELSE @.reason]]
    /\ n_ext' = n_ext + 1
    /\ last' = NoImport
    /\ UNCHANGED <<status_map, qc_batch, qc_batch_original, qc_editor,
                   qc_success_msg, qc_success_count, n_edits>>
    /\ UNCHANGED <<lb_vars, cell_vars, cr_vars, conn_vars, sub_vars>>

\* another session deletes a row of content_submissions
ExternalDelete(id) ==
    /\ n_ext < MaxExternal
    /\ id \in DOMAIN content_submissions
    /\ content_submissions' = [i \in DOMAIN content_submissions \ {id} |-> content_submissions[i]]
    /\ n_ext' = n_ext + 1
    /\ last' = NoImport
    /\ UNCHANGED <<status_map, qc_batch, qc_batch_original, qc_editor,
                   qc_success_msg, qc_success_count, n_edits>>
    /\ UNCHANGED <<lb_vars, cell_vars, cr_vars, conn_vars, sub_vars>>

\* an administrator removes a status from status_map
ExternalStatusDelete(id) ==
    /\ n_ext < MaxExternal
    /\ id \in status_map
    /\ status_map' = status_map \ {id}
    /\ n_ext' = n_ext + 1
    /\ last' = NoImport
    /\ UNCHANGED <<content_submissions, qc_batch, qc_batch_original, qc_editor,
                   qc_success_msg, qc_success_count, n_edits>>
    /\ UNCHANGED <<lb_vars, cell_vars, cr_vars, conn_vars, sub_vars>>

Next ==
    \/ \E in \in ExportInputs : Export(in[1], in[2], in[3])
    \/ \E i \in Ids, v \in {status_name(j) : j \in StatusIds} : EditStatus(i, v)
    \/ \E i \in Ids, v \in EditReasons : EditReason(i, v)
    \/ \E k \in 0..Cardinality(Ids) : Import(k)
    \/ ClearSuccess
    \/ \E i \in Ids, fields \in {{"status_id"}, {"reason"}} : ExternalUpdate(i, fields)
    \/ \E i \in Ids : ExternalDelete(i)
    \/ \E i \in RemovableStatusIds : ExternalStatusDelete(i)

Spec == Init /\ [][Next]_vars

\* ------------------------------------------- the leaderboard page's actions
\* one of the three mode buttons; the uploader widget is made anew for the
\* mode (its label names the mode), so a file uploaded for another mode is
\* gone
SelectMode(mode) ==
    /\ import_mode' = mode
    /\ uploaded' = IF mode = import_mode THEN uploaded ELSE <<>>
    /\ page' = IF mode = import_mode THEN page ELSE render(<<>>, mode)
    /\ lb_last' = LbDid("SelectMode", "none")
    /\ UNCHANGED <<leaderboard, n_imports>>
    /\ UNCHANGED <<qc_vars, cell_vars, cr_vars, conn_vars, sub_vars>>

\* the user uploads a CSV; render validates its columns and, when none is
\* missing, normalizes it and shows the import button
Upload(df) ==
    /\ uploaded' = df
    /\ page' = Rendered[import_mode][df]
    /\ lb_last' = LbDid("Upload", "none")
    /\ UNCHANGED <<import_mode, leaderboard, n_imports>>
    /\ UNCHANGED <<qc_vars, cell_vars, cr_vars, conn_vars, sub_vars>>

\* the "Import to DB" button, shown once validation and normalization have
\* passed; fail_step names the statement of the transaction that raises
ImportToDB(clear_first, fail_step) ==
    /\ page.outcome = "ready"
    /\ n_imports < MaxImports
    /\ fail_step \in {"none", "schema", "table", "insert"} \cup (IF clear_first THEN {"truncate"} ELSE {})
    /\ leaderboard' = import_transaction(leaderboard, import_mode, page.df_norm,
                                         clear_first, fail_step)
    /\ lb_last' = [op |-> "ImportToDB",
                   result |-> IF fail_step = "none" THEN "done" ELSE "failed",
                   inserted |-> IF fail_step = "none" THEN Len(page.df_norm) ELSE 0,
                   clear_first |-> clear_first,
                   fail_step |-> fail_step]
    /\ n_imports' = n_imports + 1
    /\ UNCHANGED <<import_mode, uploaded, page>>
    /\ UNCHANGED <<qc_vars, cell_vars, cr_vars, conn_vars, sub_vars>>

NextLB ==
    \/ \E m \in Modes : SelectMode(m)
    \/ \E df \in Uploads(import_mode) : Upload(df)
    \/ \E clear_first \in BOOLEAN, fail_step \in {"none", "schema", "table", "truncate", "insert"} :
          ImportToDB(clear_first, fail_step)

SpecLB == Init /\ [][NextLB]_vars

\* ------------------------------------------------- calls of the cleaners
InitCell ==
    /\ InitPages
    /\ \E input \in CellInputs :
          /\ amount = input.amount
          /\ cell = input.cell
          /\ call = [fn |-> "none", style |-> input.style]
    /\ returned = NoneValue
    /\ NoCreators
    /\ NoCalls
    /\ NoSaves

\* leaderboard_page prints a stored amount
FormatIdr ==
    /\ call.fn = "none"
    /\ call.style = "int"
    /\ cell' = format_idr(cell)
    /\ call' = [fn |-> "format_idr", style |-> "dot"]
    /\ UNCHANGED <<amount, returned>>
    /\ UNCHANGED <<qc_vars, lb_vars, cr_vars, conn_vars, sub_vars>>

CleanInt ==
    /\ call.fn \in {"none", "format_idr"}
    /\ returned' = clean_int(cell)
    /\ call' = [call EXCEPT !.fn = "clean_int"]
    /\ UNCHANGED <<amount, cell>>
    /\ UNCHANGED <<qc_vars, lb_vars, cr_vars, conn_vars, sub_vars>>

CleanIdr ==
    /\ call.fn \in {"none", "format_idr"}
    /\ returned' = clean_idr(cell)
    /\ call' = [call EXCEPT !.fn = "clean_idr"]
    /\ UNCHANGED <<amount, cell>>
    /\ UNCHANGED <<qc_vars, lb_vars, cr_vars, conn_vars, sub_vars>>

\* the value returned is cleaned once more
CleanAgain ==
    /\ call.fn \in {"clean_int", "clean_idr"}
    /\ call.style # "again"
    /\ cell' = as_cell(returned)
    /\ returned' = IF call.fn = "clean_int" THEN clean_int(as_cell(returned))
                 ELSE clean_idr(as_cell(returned))
    /\ call' = [call EXCEPT !.style = "again"]
    /\ UNCHANGED amount
    /\ UNCHANGED <<qc_vars, lb_vars, cr_vars, conn_vars, sub_vars>>

NextCell ==
    \/ FormatIdr
    \/ CleanInt
    \/ CleanIdr
    \/ CleanAgain

SpecCell == InitCell /\ [][NextCell]_vars

\* --------------------------------------------- the Creator List page's actions
InitCreator ==
    /\ InitPages
    /\ NoCells
    /\ \E templates \in [CreatorIds -> 1..Len(CreatorRows)] :
          creator_registry = [i \in CreatorIds |-> CreatorRow(templates[i], i)]
    /\ \E m \in 1..Len(AgencyMaps) : agency_map = AgencyMaps[m]
    /\ edit_form = <<>>
    /\ cr_last = NoSubmit
    /\ NoCalls
    /\ NoSaves

\* the operator picks a TikTok ID in "Edit Creator": the form shows the row
SelectCreator(id) ==
    /\ id \in DOMAIN creator_registry
    /\ edit_form' = [row_id |-> id, altered |-> {}, values |-> form_defaults(creator_frame_row(id))]
    /\ cr_last' = NoSubmit
    /\ UNCHANGED <<creator_registry, agency_map>>
    /\ UNCHANGED <<qc_vars, lb_vars, cell_vars, conn_vars, sub_vars>>

\* the operator changes one widget of the form
AlterField(key, value) ==
    /\ edit_form # <<>>
    /\ edit_form.values[key] # value
    /\ edit_form' = [edit_form EXCEPT !.values[key] = value, !.altered = @ \cup {key}]
    /\ cr_last' = NoSubmit
    /\ UNCHANGED <<creator_registry, agency_map>>
    /\ UNCHANGED <<qc_vars, lb_vars, cell_vars, conn_vars, sub_vars>>

\* the "Apply Changes" button; the run fetches the rows again before it
\* compares, and the form shows the stored row afterwards
ApplyChanges ==
    /\ edit_form # <<>>
    /\ LET row_id == edit_form.row_id
           row == creator_frame_row(row_id)
           error == form_error(edit_form.values)
           fields == updated_fields(row, edit_form.values)
           did(result, sent) == [op |-> "ApplyChanges", result |-> result, row_id |-> row_id,
                                 updated_fields |-> sent, altered |-> edit_form.altered]
       IN IF error # "ok"
          THEN /\ cr_last' = did(error, <<>>)
               /\ UNCHANGED <<creator_registry, edit_form>>
          ELSE IF DOMAIN fields = {}
          THEN /\ cr_last' = did("no_changes", <<>>)
               /\ UNCHANGED <<creator_registry, edit_form>>
          ELSE /\ creator_registry' = update_creator_registry_row(creator_registry, agency_map,
                                                                  row_id, fields)
               /\ cr_last' = did("updated", fields)
               /\ edit_form' = <<>>
    /\ UNCHANGED agency_map
    /\ UNCHANGED <<qc_vars, lb_vars, cell_vars, conn_vars, sub_vars>>

NextCreator ==
    \/ \E id \in CreatorIds : SelectCreator(id)
    \/ \E in \in AlterInputs : AlterField(in[1], in[2])
    \/ ApplyChanges

SpecCreator == InitCreator /\ [][NextCreator]_vars

\* ------------------------------------------------- calls of store operations
\* one operator action calls one store operation, which runs to its end
StoreCall(c) ==
    /\ n_calls < MaxCalls
    /\ open_connections' = open_after(open_connections, call_events(c))
    /\ conn_last' = [op |-> c[1],
                     raised |-> call_raised(c[2], c[3], c[4], c[5]),
                     events |-> call_events(c)]
    /\ n_calls' = n_calls + 1
    /\ UNCHANGED <<qc_vars, lb_vars, cell_vars, cr_vars, sub_vars>>

NextConn == \E c \in StoreCalls : StoreCall(c)

SpecConn == Init /\ [][NextConn]_vars

\* -------------------------------------------- saves of the submission form
InitSubmit ==
    /\ InitPages /\ NoCells /\ NoCreators /\ NoCalls /\ NoSaves

\* "Save" in session s, from the strip to the result of the duplicate
\* check; a link that passed is about to be inserted
Save(s, link_post) ==
    /\ n_saves < MaxSaves
    /\ sessions[s] = Idle
    /\ LET outcome == validation(form_submissions, link_post) IN
          /\ sessions' = [sessions EXCEPT ![s] =
                            IF outcome = "insert"
                            THEN [step |-> "checked", link_post |-> strip(link_post)]
                            ELSE Idle]
          /\ sub_last' = [session |-> s, step |-> "Save", outcome |-> outcome,
                          link_post |-> strip(link_post)]
    /\ n_saves' = n_saves + 1
    /\ UNCHANGED form_submissions
    /\ UNCHANGED <<qc_vars, lb_vars, cell_vars, cr_vars, conn_vars>>

\* the else branch of session s: insert_submission(payload)
Insert(s, raises) ==
    /\ sessions[s].step = "checked"
    /\ form_submissions' = insert_submission(form_submissions, sessions[s].link_post, raises)
    /\ sessions' = [sessions EXCEPT ![s] = Idle]
    /\ sub_last' = [session |-> s, step |-> "Insert",
                    outcome |-> IF raises THEN "error" ELSE "saved",
                    link_post |-> sessions[s].link_post]
    /\ UNCHANGED n_saves
    /\ UNCHANGED <<qc_vars, lb_vars, cell_vars, cr_vars, conn_vars>>

NextSubmit ==
    \/ \E s \in Sessions, link_post \in FormLinks : Save(s, link_post)
    \/ \E s \in Sessions, raises \in BOOLEAN : Insert(s, raises)

SpecSubmit == InitSubmit /\ [][NextSubmit]_vars

\* ------------------------------------------- vocabulary of the properties
\* the normalized value of a cell: trimmed, NULL read as the empty text
Norm(v) == IF v = None THEN <<>> ELSE strip(v)

\* what is stored for a working reason: its trimmed text, NULL when blank
Stored(v) == IF Norm(v) = <<>> THEN None ELSE Norm(v)

BatchIds(changes) == {changes[k].id : k \in 1..Len(changes)}

\* a step of the Import handler that reached the change detection
ImportStep == last'.op = "Import" /\ last'.result \in {"no_changes", "ok", "error"}

BaseRow(i) == loc(qc_batch_original, i)

WorkRow(i) == loc(edited_df, i)

StatusDiffers(i) == BaseRow(i).status_name # WorkRow(i).status_name

ReasonDiffers(i) == Norm(BaseRow(i).reason) # Norm(WorkRow(i).reason)

Resolves(label) == \E j \in status_map : status_name(j) = label

LabelId(label) == CHOOSE j \in status_map : status_name(j) = label

Differing == {i \in row_ids(edited_df) : StatusDiffers(i) \/ ReasonDiffers(i)}

Missed == {i \in row_ids(edited_df) : StatusDiffers(i) /\ ~Resolves(WorkRow(i).status_name)}

\* the store row differs from what the export showed: another session wrote it
MovedOn(i) ==
    \/ content_submissions[i].reason # BaseRow(i).reason
    \/ joined_row(i).status_name # BaseRow(i).status_name

C2_PayloadOnlyChangedFields ==
    [][ImportStep =>
        \A k \in 1..Len(last'.changes) :
            LET p == last'.changes[k]
            IN /\ "id" \in DOMAIN p
               /\ ("status_id" \in DOMAIN p <=> StatusDiffers(p.id))
               /\ ("reason" \in DOMAIN p <=> ReasonDiffers(p.id))]_vars

\* C2 amended: every payload carries the row id, always the reason (the
\* working reason trimmed, NULL when blank), and status_id exactly when the
\* status changed; there is one payload per changed row, so an edit of one
\* field of one row gives exactly one payload, for that row.
C2_PayloadShape ==
    [][ImportStep =>
        /\ \A k \in 1..Len(last'.changes) :
              LET p == last'.changes[k]
              IN /\ DOMAIN p \subseteq {"id", "status_id", "reason"}
                 /\ "id" \in DOMAIN p
                 /\ "reason" \in DOMAIN p
                 /\ p.reason = Stored(WorkRow(p.id).reason)
                 /\ ("status_id" \in DOMAIN p <=> StatusDiffers(p.id))
                 /\ (StatusDiffers(p.id) => p.status_id = LabelId(WorkRow(p.id).status_name))
        /\ \A j, k \in 1..Len(last'.changes) :
              last'.changes[j].id = last'.changes[k].id => j = k
        /\ (Cardinality(Differing) = 1 /\ Missed = {} =>
              Len(last'.changes) = 1 /\ BatchIds(last'.changes) = Differing)]_vars

C2_Witness ==
    /\ last.op = "Import"
    /\ Len(last.changes) = 1
    /\ Cardinality(last.status_changed) = 1
    /\ last.reason_changed = {}
    /\ DOMAIN last.changes[1] = {"id", "status_id", "reason"}

\* ------------------------------------------------------------------- C3
\* C3: an Import whose edits are status changes only (reasons left as
\* exported) and which the store does not reject succeeds; each row whose
\* new label is in the lookup gets the id of that label as status_id, counts
\* once in the reported count, and a new export shows the new label for it;
\* no other row of the store is modified.
C3_StatusEditApplied ==
    [][(/\ ImportStep
        /\ last'.fail_at = 0
        /\ {i \in row_ids(edited_df) : ReasonDiffers(i)} = {}
        /\ Differing \ Missed # {}) =>
        /\ last'.result = "ok"
        /\ qc_success_count' = Cardinality(Differing \ Missed)
        /\ \A i \in Differing \ Missed :
              /\ Cardinality({k \in 1..Len(last'.changes) : last'.changes[k].id = i}) = 1
              /\ i \in DOMAIN content_submissions =>
                    /\ content_submissions'[i].status_id = LabelId(WorkRow(i).status_name)
                    /\ joined_row(i)'.status_name = WorkRow(i).status_name
        /\ DOMAIN content_submissions' = DOMAIN content_submissions
        /\ \A j \in DOMAIN content_submissions \ (Differing \ Missed) :
              content_submissions'[j] = content_submissions[j]]_vars

C3_Witness ==
    /\ last.op = "Import"
    /\ last.result = "ok"
    /\ last.reason_changed = {}
    /\ Len(last.changes) = 1
    /\ qc_success_count = 1
    /\ last.changes[1].id \in DOMAIN content_submissions
    /\ content_submissions[last.changes[1].id].status_id = last.changes[1].status_id
    /\ Cardinality(DOMAIN content_submissions) > 1

C5_DiffEmptyAfterPromotion ==
    (last.op = "Import" /\ last.result = "ok") =>
        /\ diff_changes(qc_batch_original, edited_df, status_name_to_id, 1) = <<>>
        /\ Len(qc_batch_original) = Len(edited_df)
        /\ \A k \in 1..Len(edited_df) :
              /\ qc_batch_original[k].id = edited_df[k].id
              /\ qc_batch_original[k].status_name = edited_df[k].status_name
              /\ qc_batch_original[k].reason = Stored(edited_df[k].reason)

C5_Witness ==
    /\ last.op = "Import"
    /\ last.result = "ok"
    /\ \E k \in 1..Len(edited_df) :
          /\ edited_df[k].reason = <<>>
          /\ qc_batch_original[k].reason = None
          /\ edited_df[k].id \in BatchIds(last.changes)

\* ------------------------------------------------------------------- C6
\* C6: when the apply fails, the snapshot stays open with baseline, working
\* copy and editor buffer as before, no success count or message is
\* recorded, and the next diff reports the same pending changes.
C6_FailedApplyKeepsSnapshot ==
    [][(last'.op = "Import" /\ last'.result = "error") =>
        /\ qc_batch_original' = qc_batch_original
        /\ qc_batch' = qc_batch
        /\ qc_editor' = qc_editor
        /\ qc_batch' # <<>>
        /\ qc_batch_original' # <<>>
        /\ qc_success_count' = qc_success_count
        /\ qc_success_msg' = qc_success_msg
        /\ last'.changes # <<>>
        /\ diff_changes(qc_batch_original', edited_df', status_name_to_id', 1) = last'.changes]_vars

C6_Witness ==
    /\ last.op = "Import"
    /\ last.result = "error"
    /\ last.fail_at # 0
    /\ qc_success_count = 0
    /\ Len(last.changes) = 2

\* ------------------------------------------------------------------- C7
\* the working copy with every cell that is normalized-equal to its baseline
\* put back to the exported value (for the status column too when `status`)
Unedit(cur, status) ==
    [k \in 1..Len(cur) |->
        LET w == cur[k]
            b == loc(qc_batch_original, w.id)
        IN [id |-> w.id,
            status_name |-> IF status /\ Norm(b.status_name) = Norm(w.status_name)
                            THEN b.status_name ELSE w.status_name,
            reason |-> IF Norm(b.reason) = Norm(w.reason)
                       THEN (IF b.reason = None THEN <<>> ELSE b.reason)
                       ELSE w.reason]]

\* C7 as stated: for status and for reason alike, a working value equal to
\* the baseline after trimming (NULL read as empty) is handled exactly as if
\* the cell had not been edited.
C7_NormalizedEqualityBothFields ==
    [][ImportStep =>
        last'.changes = diff_changes(qc_batch_original, Unedit(edited_df, TRUE),
                                     status_name_to_id, 1)]_vars

\* C7 amended: the reason is compared under the normalized-equality rule (a
\* working reason equal to the baseline after trimming, NULL read as empty,
\* is handled exactly as if it had not been edited); the status is compared
\* by exact equality of the labels.
C7_NormalizedEqualityOfReason ==
    [][ImportStep =>
        /\ last'.changes = diff_changes(qc_batch_original, Unedit(edited_df, FALSE),
                                        status_name_to_id, 1)
        /\ last'.reason_changed = {i \in row_ids(edited_df) : ReasonDiffers(i)}
        /\ last'.status_changed = {i \in row_ids(edited_df) : StatusDiffers(i)}]_vars

C7_Witness ==
    /\ last.op = "Import"
    /\ last.result = "ok"
    /\ last.reason_changed = {}
    /\ \E k \in 1..Len(last.changes) :
          LET p == last.changes[k]
          IN /\ "status_id" \in DOMAIN p
             /\ <<p.id, "reason">> \in DOMAIN qc_editor
             /\ qc_editor[<<p.id, "reason">>] # p.reason

\* ------------------------------------------------------------------- C8
\* C8: last writer wins: when another session has changed status or reason
\* of a row since the export, an apply of a batch containing that row, which
\* the store does not reject, raises no error, and afterwards the store
\* holds the working copy's status and reason for that row.
C8_LastWriterWins ==
    [][(ImportStep /\ last'.fail_at = 0) =>
        \A i \in BatchIds(last'.changes) \cap DOMAIN content_submissions :
            MovedOn(i) =>
                /\ last'.result = "ok"
                /\ Norm(content_submissions'[i].reason) = Norm(WorkRow(i).reason)
                /\ joined_row(i)'.status_name = WorkRow(i).status_name]_vars

\* ------------------------------------------------------------------- C9
\* C9: a row whose new status label has no id in the lookup is left out of
\* the batch and of the count, its store row is not modified and no error is
\* raised; the other changed rows of the same Import are applied and counted.
C9_LookupMissSkipsOnlyThatRow ==
    [][(ImportStep /\ last'.fail_at = 0 /\ Missed # {}) =>
        /\ BatchIds(last'.changes) \cap Missed = {}
        /\ \A i \in Missed \cap DOMAIN content_submissions :
              content_submissions'[i] = content_submissions[i]
        /\ last'.result # "error"
        /\ (Differing \ Missed # {} =>
              /\ last'.result = "ok"
              /\ BatchIds(last'.changes) = Differing \ Missed
              /\ qc_success_count' = Cardinality(Differing \ Missed)
              /\ \A i \in (Differing \ Missed) \cap DOMAIN content_submissions :
                    /\ content_submissions'[i].reason = Stored(WorkRow(i).reason)
                    /\ (StatusDiffers(i) =>
                          content_submissions'[i].status_id = LabelId(WorkRow(i).status_name)))]_vars

\* ------------------------------------------------------------------ C10
\* the same letters, whatever their case
SameLetters(a, b) ==
    /\ Len(a) = Len(b)
    /\ \A i \in 1..Len(a) : lower(<<a[i]>>) = lower(<<b[i]>>)

\* the column name x is the required name c in some case, with nothing but
\* blanks before and after it
Matches(x, c) ==
    \E i \in 0..(Len(x) - Len(c)) :
        /\ \A k \in 1..i : x[k] = " "
        /\ \A k \in (i + Len(c) + 1)..Len(x) : x[k] = " "
        /\ SameLetters(SubSeq(x, i + 1, i + Len(c)), c)

\* the required names of the mode that no column of the table matches, in
\* the order of the mode's list
Absent(df, mode) ==
    SelectSeq(required_cols(mode),
              LAMBDA c : ~\E i \in 1..Len(df.columns) : Matches(df.columns[i], c))

\* every required name of the mode resolves to a column of the table that
\* matches it
Resolved(df, mode) ==
    \A j \in 1..Len(required_cols(mode)) :
        LET p == pick_col(df, required_cols(mode)[j])
        IN /\ ~p.raised
           /\ \E i \in 1..Len(df.columns) : df.columns[i] = p.col
           /\ Matches(p.col, required_cols(mode)[j])

\* Absent and Resolved for the files of Uploads, tabulated
Expected ==
    [mode \in Modes |->
        [df \in Uploads(mode) |-> [absent |-> Absent(df, mode), resolved |-> Resolved(df, mode)]]]

\* C10: with a file uploaded, the page reports as missing exactly the
\* required names of the selected mode that no column matches ignoring case
\* and surrounding blanks; if there is one, render stops with no normalized
\* frame; if there is none, every required name resolves to its matching
\* column and the frame is normalized.  The import runs only from a page with
\* no missing column, so with one missing no row is inserted and the
\* destination table stays as it was.
C10_RequiredColumnCheck ==
    /\ [](uploaded # <<>> =>
            LET e == Expected[import_mode][uploaded]
            IN /\ page.missing = e.absent
               /\ (e.absent # <<>> =>
                     /\ page.outcome = "missing_columns"
                     /\ page.df_norm = <<>>)
               /\ (e.absent = <<>> =>
                     /\ page.outcome = "ready"
                     /\ e.resolved
                     /\ Len(page.df_norm) = Len(uploaded.rows)))
    /\ [][(leaderboard' # leaderboard \/ lb_last'.op = "ImportToDB") =>
            /\ uploaded # <<>>
            /\ Expected[import_mode][uploaded].absent = <<>>]_vars

C10_Witness ==
    /\ uploaded # <<>>
    /\ page.outcome = "missing_columns"
    /\ Len(page.missing) >= 2
    /\ Len(page.missing) < Len(required_cols(import_mode))
    /\ \A i \in 1..Len(uploaded.columns) :
          \A j \in 1..Len(required_cols(import_mode)) :
              uploaded.columns[i] # required_cols(import_mode)[j]
    /\ leaderboard[import_mode].rows # <<>>

\* ------------------------------------------------------------------ C11
\* C11: the leaderboard load is one transaction: when a statement of it
\* (ensure schema, ensure table, truncate, insert) raises, every table of
\* the schema is as it was before the click, the rows the destination held
\* included, also when "clear table first" was ticked, and no row is
\* reported as inserted.
C11_FailedLoadCommitsNothing ==
    [][(lb_last'.op = "ImportToDB" /\ lb_last'.result = "failed") =>
        /\ leaderboard' = leaderboard
        /\ lb_last'.inserted = 0]_vars

C11_Witness ==
    /\ lb_last.op = "ImportToDB"
    /\ lb_last.result = "failed"
    /\ lb_last.clear_first
    /\ lb_last.fail_step = "insert"
    /\ leaderboard[import_mode].rows # <<>>
    /\ page.df_norm # <<>>

\* ------------------------------------------------------------------ C12
\* two clicks on the import button in a row, both successful, with the same
\* file, the same mode and the same setting of "clear table first"
SecondLoad ==
    /\ lb_last.op = "ImportToDB"
    /\ lb_last.result = "done"
    /\ lb_last'.op = "ImportToDB"
    /\ lb_last'.result = "done"
    /\ lb_last'.clear_first = lb_last.clear_first

\* C12: after the second of two loads of the same file with "clear table
\* first", the destination table holds exactly the normalized rows of the
\* file, as it did after the first; after the second of two loads without
\* it, the table holds the rows it had before the first load, followed by
\* the rows of the file twice.  The other tables are not touched.
C12_ReloadReplacesOrDuplicates ==
    [][SecondLoad =>
        LET R == page.df_norm
            T == leaderboard[import_mode].rows
            T2 == leaderboard'[import_mode].rows
            before == SubSeq(T, 1, Len(T) - Len(R))
        IN /\ (lb_last.clear_first => T = R /\ T2 = R)
           /\ (~lb_last.clear_first =>
                 /\ Len(T) >= Len(R)
                 /\ T = before \o R
                 /\ T2 = before \o R \o R)
           /\ \A m \in Modes \ {import_mode} : leaderboard'[m] = leaderboard[m]]_vars

C12_Witness ==
    /\ lb_last.op = "ImportToDB"
    /\ lb_last.result = "done"
    /\ ~lb_last.clear_first
    /\ n_imports = 2
    /\ Len(page.df_norm) = 2
    /\ Len(leaderboard[import_mode].rows) = 5
    /\ SubSeq(leaderboard[import_mode].rows, 2, 3) = page.df_norm
    /\ SubSeq(leaderboard[import_mode].rows, 4, 5) = page.df_norm

\* ------------------------------------------------------------------ C13
\* C13: an amount written by _format_idr ("Rp" and the digits of n >= 0
\* grouped by dots), the same amount grouped by commas, and a negative
\* amount written with the minus before "Rp" are each read back by
\* _clean_idr as the integer they were written from.
C13_CurrencyRoundTrip ==
    (/\ call.fn = "clean_idr"
     /\ \/ call.style \in {"dot", "comma"} /\ amount >= 0
        \/ call.style = "minus_prefix" /\ amount < 0)
    => returned = IntValue(amount)

C13_Witness ==
    /\ call = [fn |-> "clean_idr", style |-> "dot"]
    /\ amount = 1234567
    /\ cell = <<"R", "p", "1", ".", "2", "3", "4", ".", "5", "6", "7">>
    /\ returned = IntValue(1234567)

\* ------------------------------------------------------------------ C14
\* C14: _clean_int returns n for the whole number n whether the cell holds
\* the int n, the text of n or the float n.0, and cleaning a value that
\* _clean_int returned gives that value again.
C14_UniformOverTypedAndTextual ==
    /\ []((call.fn = "clean_int" /\ call.style \in {"int", "str", "float"})
             => returned = IntValue(amount))
    /\ [][(call.fn = "clean_int" /\ call'.style = "again") => returned' = returned]_vars

\* ------------------------------------------------------------------ C15
\* C15: in every row of the normalized table each text field (creator_name,
\* username, status) is null or a trimmed text that is none of the
\* placeholders "", ".", "nan", "none".
C15_NoPlaceholderStoredAsText ==
    page.outcome = "ready" =>
        \A r \in 1..Len(page.df_norm) :
            \A f \in {"creator_name", "username", "status"} \cap DOMAIN page.df_norm[r] :
                LET x == page.df_norm[r][f]
                IN \/ x = NoneValue
                   \/ /\ x.k = "text"
                      /\ x.v = strip(x.v)
                      /\ lower(x.v) \notin {<<>>, <<".">>, <<"n", "a", "n">>, <<"n", "o", "n", "e">>}

\* ------------------------------------------------------------------ C16
\* the cell holds no integer: it is missing, its trimmed text is "", "nan",
\* "none" or "-", it has no digit, or a minus follows the first of the
\* digits and minus signs that remain of it
HoldsNoInteger(v) ==
    \/ isna(v)
    \/ LET t == str(v)
           kept == SelectSeq(t, LAMBDA c : c = "-" \/ \E d \in 1..10 : DigitChars[d] = c)
       IN \/ lower(strip(t)) \in {<<>>, <<"n", "a", "n">>, <<"n", "o", "n", "e">>}
          \/ strip(t) = <<"-">>
          \/ \A i \in 1..Len(t) : \A d \in 1..10 : DigitChars[d] # t[i]
          \/ \E i \in 2..Len(kept) : kept[i] = "-"

\* C16: every call of _clean_int and of _clean_idr returns an integer or
\* null, never an exception, and returns null for a cell that holds no
\* integer.
C16_CleanersAreTotal ==
    call.fn \in {"clean_int", "clean_idr"} =>
        /\ returned = NoneValue \/ (returned.k = "int" /\ returned.v \in Int)
        /\ HoldsNoInteger(cell) => returned = NoneValue

C16_Witness ==
    /\ call = [fn |-> "clean_int", style |-> "text"]
    /\ cell = <<"1", "-", "2">>
    /\ returned = NoneValue

\* ------------------------------------------------------------------ C17
\* C17: after every export the editor buffer is empty and baseline and
\* working copy hold, row by row, the rows the store has at that moment (the
\* working copy with "" for a NULL reason), so nothing of the snapshot
\* before is left; and at all times baseline and working copy hold the same
\* rows in the same order.
C17_ExportDiscardsPreviousSnapshot ==
    /\ [](/\ Len(qc_batch) = Len(qc_batch_original)
          /\ \A k \in 1..Len(qc_batch) : qc_batch[k].id = qc_batch_original[k].id)
    /\ [][last'.op = "Export" =>
            /\ qc_editor' = <<>>
            /\ edited_df' = qc_batch'
            /\ \A k \in 1..Len(qc_batch_original') :
                  LET b == qc_batch_original'[k]
                      w == qc_batch'[k]
                  IN /\ b.id \in DOMAIN content_submissions
                     /\ b.status_name = joined_row(b.id).status_name
                     /\ b.reason = content_submissions[b.id].reason
                     /\ w.status_name = b.status_name
                     /\ w.reason = IF b.reason = None THEN <<>> ELSE b.reason]_vars

\* an export made after cells of an earlier snapshot were edited
C17_Witness ==
    /\ last.op = "Export"
    /\ last.result = "ok"
    /\ n_edits = MaxEdits
    /\ qc_editor = <<>>
    /\ qc_batch # <<>>

\* ------------------------------------------------------------------ C18
\* the session holds a snapshot: the editor, the diff and the apply are
\* offered
SnapshotOpen == qc_batch # <<>> /\ qc_batch_original # <<>>

\* the ids of the store rows that a filter selects
Selected(in) ==
    {i \in DOMAIN content_submissions : in_filter(joined_row(i), in[1], in[2], in[3])}

\* C18: an export performed while a snapshot is open leaves a snapshot open,
\* whatever the filter.
C18_ExportKeepsSnapshotOpen ==
    [][(SnapshotOpen /\ last'.op = "Export") => SnapshotOpen']_vars

\* C18 as the code has it: an export performed while a snapshot is open
\* leaves a snapshot of the selected rows open when the filter selects a
\* row, and leaves no snapshot when it selects none.
C18_ExportKeepsSnapshotOpenIfRowsMatch ==
    [][(SnapshotOpen /\ last'.op = "Export") =>
          \E in \in ExportInputs :
              /\ row_ids(qc_batch') = Selected(in)
              /\ row_ids(qc_batch_original') = Selected(in)
              /\ Selected(in) # {} => SnapshotOpen' /\ editor_shown'
              /\ Selected(in) = {} => qc_batch' = <<>> /\ qc_batch_original' = <<>>]_vars

\* an export that selected no row, made after an earlier snapshot was edited
C18_Witness ==
    /\ last.op = "Export"
    /\ last.result = "empty"
    /\ n_edits > 0
    /\ ~SnapshotOpen

\* ------------------------------------------------------------------ C19
\* C19: the baseline changes only in an export and in an apply that
\* succeeded; a cell edit, an Import whose diff is empty (nothing edited, or
\* every edited row skipped) and an Import whose apply failed leave the
\* baseline as it was, and an Import that did not succeed leaves the working
\* copy as it was too.
C19_BaselineChangesOnlyByExportOrPromotion ==
    /\ [][qc_batch_original' # qc_batch_original =>
             \/ last'.op = "Export"
             \/ last'.op = "Import" /\ last'.result = "ok"]_vars
    /\ [][(last'.op = "Import" /\ last'.result # "ok") =>
             /\ qc_batch_original' = qc_batch_original
             /\ qc_batch' = qc_batch]_vars

\* an Import whose only edited row was skipped
C19_Witness ==
    /\ last.op = "Import"
    /\ last.result = "no_changes"
    /\ last.skipped # {}
    /\ qc_editor # <<>>
    /\ qc_batch_original # <<>>

\* ------------------------------------------------------------------ C20
\* C20: every update dict of the batch an Import builds carries the keys id,
\* status_id and reason, and a batch the store does not reject for another
\* cause is executed.
C20_UpdateDictCarriesAllKeys ==
    (last.op = "Import" /\ last.result \in {"ok", "error"}) =>
        /\ \A k \in 1..Len(last.changes) :
              {"id", "status_id", "reason"} \subseteq DOMAIN last.changes[k]
        /\ last.fail_at = 0 => last.result = "ok"

\* ------------------------------------------------------------------ C21
\* an Import whose batch the store rejected at its k-th update, k > 1, every
\* update before it being one the statement accepts
RejectedAfterFirst ==
    /\ last'.op = "Import"
    /\ last'.result = "error"
    /\ last'.fail_at > 1
    /\ \A k \in 1..(last'.fail_at - 1) :
          {"id", "status_id", "reason"} \subseteq DOMAIN last'.changes[k]

\* C21: when the store rejects the k-th update of a batch, the rows of the
\* updates before it hold the values of those updates after the failed
\* apply.
C21_EarlierUpdatesStayCommitted ==
    [][RejectedAfterFirst =>
          \A k \in 1..(last'.fail_at - 1) :
              LET u == last'.changes[k]
              IN u.id \in DOMAIN content_submissions' =>
                    /\ content_submissions'[u.id].status_id = u.status_id
                    /\ content_submissions'[u.id].reason = u.reason]_vars

\* C21 as the code has it: the updates of a batch are one transaction, and
\* an apply that failed at any update leaves every row of the store as it
\* was before the apply.
C21_FailedApplyRollsBackWholeBatch ==
    [][(last'.op = "Import" /\ last'.result = "error") =>
          content_submissions' = content_submissions]_vars

\* a batch of two status updates rejected at the second: the row of the
\* first still holds what it held before
C21_Witness ==
    /\ last.op = "Import"
    /\ last.result = "error"
    /\ last.fail_at = 2
    /\ Len(last.changes) = 2
    /\ "status_id" \in DOMAIN last.changes[1]
    /\ last.changes[1].id \in DOMAIN content_submissions
    /\ content_submissions[last.changes[1].id].status_id # last.changes[1].status_id

\* ------------------------------------------------------------------ C22
\* C22: called again with the batch of the Import just made and no writer
\* in between, bulk_update_content_submissions ends as the first call did
\* and leaves the store as the first call left it; called with the empty
\* list it leaves the store as it is.
C22_ApplyTwiceIsApplyOnce ==
    [][(last'.op = "Import" /\ last'.result \in {"ok", "error"}) =>
          LET once == content_submissions'
              twice == bulk_update_content_submissions(once, last'.changes, last'.fail_at)
          IN /\ twice.table = once
             /\ twice.raised = (last'.result = "error")
             /\ bulk_update_content_submissions(once, <<>>, 0).table = once]_vars

\* a batch of two updates that the store took
C22_Witness ==
    /\ last.op = "Import"
    /\ last.result = "ok"
    /\ Len(last.changes) = 2
    /\ \A k \in 1..2 :
          /\ last.changes[k].id \in DOMAIN content_submissions
          /\ content_submissions[last.changes[k].id].status_id = last.changes[k].status_id

\* ------------------------------------------------------------------ C23
\* the input cell of row r that the normalizer reads for a field
PickedCell(df, e, r) == series(df, pick_col(df, e.pick).col)[r]

\* what each row of a file normalizes to when it is the only row of the
\* file, for the files of Uploads, tabulated
RowByRow ==
    [mode \in Modes |-> [df \in Uploads(mode) |->
        [r \in 1..Len(df.rows) |->
            normalize([columns |-> df.columns, rows |-> <<df.rows[r]>>], mode)]]]

\* the normalized table has null wherever the file has a number or an amount
\* that cannot be read, for the files of Uploads that normalize, tabulated
UnreadableIsNull ==
    [mode \in Modes |-> [df \in Uploads(mode) |->
        LET plan == normalizer(mode)
            n == normalize(df, mode)
        IN n.raised \/
           \A r \in 1..Len(df.rows) : \A j \in 1..Len(plan) :
               (/\ plan[j].kind \in {"int", "idr"}
                /\ HoldsNoInteger(PickedCell(df, plan[j], r)))
               => r <= Len(n.df_norm) /\ n.df_norm[r][plan[j].out] = NoneValue]]

\* C23: a table that passes validation is normalized row for row: as many
\* rows as uploaded, row r being what row r alone normalizes to, with every
\* column of the mode's insert list, and null where a number or an amount
\* cannot be read; a load that succeeds inserts as many rows as were
\* uploaded.
C23_NormalizationKeepsEveryRow ==
    /\ [](page.outcome = "ready" =>
            LET cols == insert_cols(import_mode)
            IN /\ Len(page.df_norm) = Len(uploaded.rows)
               /\ UnreadableIsNull[import_mode][uploaded]
               /\ \A r \in 1..Len(uploaded.rows) :
                     /\ DOMAIN page.df_norm[r] = {cols[j] : j \in 1..Len(cols)}
                     /\ page.df_norm[r] = RowByRow[import_mode][uploaded][r].df_norm[1])
    /\ [][(lb_last'.op = "ImportToDB" /\ lb_last'.result = "done") =>
             /\ lb_last'.inserted = Len(uploaded.rows)
             /\ Len(leaderboard'[import_mode].rows) =
                   (IF lb_last'.clear_first THEN 0 ELSE Len(leaderboard[import_mode].rows))
                   + Len(uploaded.rows)]_vars

\* a file of two rows, the first with a number that cannot be read, loaded
C23_Witness ==
    /\ lb_last.op = "ImportToDB"
    /\ lb_last.result = "done"
    /\ lb_last.inserted = 2
    /\ import_mode = "Main Leaderboard"
    /\ uploaded # <<>>
    /\ Len(uploaded.rows) = 2
    /\ uploaded.rows[1][4] = <<"1", "-", "2">>
    /\ page.df_norm[1].post_count = NoneValue
    /\ page.df_norm[2].post_count = IntValue(12)

\* ------------------------------------------------------------------ C24
\* C24: an update whose agency_name has no row in agency_map leaves the
\* agency_id of the creator's row as it was.
C24_AgencyLookupMissSkipsRow ==
    [][(/\ cr_last'.op = "ApplyChanges"
        /\ cr_last'.result = "updated"
        /\ "agency_name" \in DOMAIN cr_last'.updated_fields
        /\ \A i \in DOMAIN agency_map : agency_map[i] # cr_last'.updated_fields["agency_name"]) =>
          creator_registry'[cr_last'.row_id].agency_id
              = creator_registry[cr_last'.row_id].agency_id]_vars

\* ------------------------------------------------------------------ C29
\* C29: "Apply Changes" pressed on a form of which no widget was altered
\* finds no change and leaves the store as it is.
C29_UnalteredFormChangesNothing ==
    [][(cr_last'.op = "ApplyChanges" /\ cr_last'.altered = {}) =>
          /\ cr_last'.result = "no_changes"
          /\ creator_registry' = creator_registry]_vars

\* ------------------------------------------------------------------ C26
\* every other session's action so far removed a status from status_map:
\* nobody else has written to content_submissions
NoOtherWriter == n_ext = Cardinality(StatusIds \ status_map)

\* every baseline row has the status and the reason its store row has (the
\* status being the name of the stored id, or NULL as the join shows it
\* when status_map has lost that id)
BaselineAgreesWithStore ==
    \A k \in 1..Len(qc_batch_original) :
        /\ qc_batch_original[k].id \in DOMAIN content_submissions
        /\ qc_batch_original[k].status_name
              \in {status_name(content_submissions[qc_batch_original[k].id].status_id),
                   joined_row(qc_batch_original[k].id).status_name}
        /\ content_submissions[qc_batch_original[k].id].reason = qc_batch_original[k].reason

id_column(df) == [k \in 1..Len(df) |-> df[k].id]

\* C27: baseline and working copy are both absent or both present; when
\* present they hold the same set of row ids, each id once, and so does
\* the frame the editor returns; only an export changes the ids or their
\* order.
C27_SnapshotKeepsItsRows ==
    /\ [](/\ (qc_batch = <<>>) <=> (qc_batch_original = <<>>)
          /\ row_ids(qc_batch) = row_ids(qc_batch_original)
          /\ row_ids(edited_df) = row_ids(qc_batch)
          /\ Cardinality(row_ids(qc_batch)) = Len(qc_batch)
          /\ Cardinality(row_ids(qc_batch_original)) = Len(qc_batch_original)
          /\ Len(edited_df) = Len(qc_batch))
    /\ [][last'.op # "Export" =>
            /\ id_column(qc_batch') = id_column(qc_batch)
            /\ id_column(qc_batch_original') = id_column(qc_batch_original)
            /\ id_column(edited_df') = id_column(edited_df)]_vars

\* an apply that wrote one row of a two-row snapshot and promoted it, the
\* other row having no reason
C27_Witness ==
    /\ last.op = "Import"
    /\ last.result = "ok"
    /\ Len(last.changes) = 1
    /\ Len(qc_batch_original) = 2
    /\ \E k \in 1..2 : qc_batch_original[k].reason = None

\* ------------------------------------------------------------------ C28
\* the payloads of the batch whose id matches a row of content_submissions
\* when the apply runs: the rows the UPDATE statements change
rows_updated(changes) ==
    Cardinality({k \in 1..Len(changes) : changes[k].id \in DOMAIN content_submissions})

\* C28: the success count kept and shown after an apply is the number of
\* store rows the apply updated; a payload whose row was deleted after the
\* export is not counted.
C28_SuccessCountIsRowsUpdated ==
    [][(last'.op = "Import" /\ last'.result = "ok") =>
        /\ qc_success_count' = rows_updated(last'.changes)
        /\ qc_success_msg' = rows_updated(last'.changes)]_vars

\* ------------------------------------------------------------------ C25
\* C25: after every store operation, whether it returned or raised, no
\* connection it opened is open; a connection is closed before the
\* operation opens another, and an operation that ran a statement had
\* opened one.
C25_ConnectionsClosedOnEveryPath ==
    /\ open_connections = 0
    /\ \A k \in 1..Len(conn_last.events) :
          conn_last.events[k] = (IF k % 2 = 1 THEN "open" ELSE "close")
    /\ (conn_last.op # "none" /\ ~conn_last.raised /\ conn_last.events = <<>>) =>
          conn_last.op \in {"bulk_update_content_submissions", "update_creator_registry_row"}

\* an update of a creator whose UPDATE raised after the agency lookup
C25_Witness ==
    /\ conn_last.op = "update_creator_registry_row"
    /\ conn_last.raised
    /\ conn_last.events = <<"open", "close", "open", "close">>
    /\ open_connections = 0

\* ------------------------------------------------------------------ C30
\* C30: content_submissions never holds two rows inserted through the
\* form with the same trimmed link_post, whatever the interleaving of the
\* sessions' duplicate checks and inserts.
C30_NoDuplicateLinkStored ==
    \A j, k \in 1..Len(form_submissions) :
        sql_trim(form_submissions[j]) = sql_trim(form_submissions[k]) => j = k

====
